---- MODULE Spec2Model ----
(***************************************************************************)
(* Credential and session lifecycle, and encrypted backup restore, of the  *)
(* PostureView backend (backend/app).  Requests are served concurrently    *)
(* against one transactional store; a request yields at every awaited      *)
(* database read or commit, so each handler is a sequence of steps.        *)
(***************************************************************************)
EXTENDS Integers, Sequences, FiniteSets, Bags, TLC

(* ------------------------------ bounds --------------------------------- *)
\* Requests served over a behaviour.
MaxRequests == 3
\* Clock advances over a behaviour.
MaxTicks == 1
\* Entries (patients, assessments and selections together) of the backup a
\* restore reads.
MaxEntries == 4
MaxRuns == 3

(* --------------------------- configuration ----------------------------- *)
\* settings.REFRESH_TOKEN_EXPIRE_DAYS; the clock counts days.
REFRESH_TOKEN_EXPIRE_DAYS == 7
\* change_password: len(body.new_password) < 6 is rejected.
MIN_PASSWORD_LENGTH == 6
\* settings.ACCESS_TOKEN_EXPIRE_MINUTES.
ACCESS_TOKEN_EXPIRE_MINUTES == 15
\* timedelta(minutes=...) against timedelta(days=...): exp claims count
\* minutes.
MinutesPerDay == 1440

Slots == {"r1", "r2"}
UserIds == {"u1", "u2"}
Usernames == {"admin", "bob", "nobody"}
Passwords == {"admin1234", "abcde", "abcdef"}
\* Clock steps: one day, or a whole refresh-token lifetime.
TickSteps == {1, REFRESH_TOKEN_EXPIRE_DAYS}
\* Refresh values no login ever issued (uuid values are numbered from 1).
ForgedTokens == {0}
\* last_login_at is NULL ({}) or holds one instant ({t}).
Never == {}

VARIABLES
    users,           \* table users: id -> row
    refresh_tokens,  \* table refresh_tokens: set of rows
    audit_logs,      \* table audit_logs: rows in insertion order
    now,             \* the clock, in days
    uuid_counter,    \* uuid4 values handed out so far
    req,             \* the requests in flight: slot -> handler state
    nreq,            \* requests started so far
    nticks,          \* clock advances so far
    redeemed,        \* bag of refresh values a refresh answered 200 for
    pre,             \* store as it was when the running request started
    patients,        \* table patients: set of rows
    assessments,     \* table assessments: set of rows
    selections,      \* table selections: set of rows
    rq,              \* the restore request in flight
    autoflush,       \* whether the session flushes pending rows before a SELECT
    bk,              \* the export a restore reads back: artifact and source
    mig,             \* migrate_encrypt.py: the columns it rewrites, its run
    portal,          \* patient_invites, patient_links, portal requests
    held,            \* the access tokens answers have carried to clients
    enc              \* encryption_service of the process: key, _fernet, calls

\* What the backup endpoints own besides users and audit_logs.
backupVars ==
    <<patients, assessments, selections, rq, autoflush, bk, mig, portal>>

vars == <<users, refresh_tokens, audit_logs, now, uuid_counter, req, nreq,
          nticks, redeemed, pre, backupVars, held, enc>>

(* ------------------------- auth_service.py ----------------------------- *)
\* passlib bcrypt: a one-way digest; only verify_password relates it to text.
hash_password(password) == <<"bcrypt", password>>

verify_password(plain, hashed) == hashed = hash_password(plain)

\* sha256 hex digest of the token value.
hash_token(token) == <<"sha256", token>>

\* Mutant of ValidSessions: expires_at >= now.
ValidSessions_inclusive(token_value) ==
    { rt \in refresh_tokens :
        /\ rt.token_hash = hash_token(token_value)
        /\ rt.revoked = FALSE
        /\ rt.expires_at >= now }

\* Rows of refresh_tokens matching validate_refresh_token's WHERE clause.
ValidSessions(token_value) ==
    { rt \in refresh_tokens :
        /\ rt.token_hash = hash_token(token_value)
        /\ rt.revoked = FALSE
        /\ rt.expires_at > now }

\* Mutant of ActiveSessionsOf: the user_id condition is dropped.
ActiveSessionsOf_anyone(user_id) ==
    { rt \in refresh_tokens : rt.revoked = FALSE }

\* Rows of refresh_tokens matching revoke_all_user_tokens's WHERE clause.
ActiveSessionsOf(user_id) ==
    { rt \in refresh_tokens : rt.user_id = user_id /\ rt.revoked = FALSE }

\* The id default of the row made for the n-th value: a uuid4 of its own.
RowId(n) == <<"uuid4", n>>

\* Mutant of NewSession: the value itself is stored, not its digest.
NewSession_raw(user_id, token_value) ==
    [ id         |-> RowId(token_value),
      user_id    |-> user_id,
      token_hash |-> <<"raw", token_value>>,
      expires_at |-> now + REFRESH_TOKEN_EXPIRE_DAYS,
      revoked    |-> FALSE ]

\* Mutant of NewSession: the row expires a day after it is made.
NewSession_short(user_id, token_value) ==
    [ id         |-> RowId(token_value),
      user_id    |-> user_id,
      token_hash |-> hash_token(token_value),
      expires_at |-> now + 1,
      revoked    |-> FALSE ]

\* The row create_refresh_token adds for a fresh uuid4 value.
NewSession(user_id, token_value) ==
    [ id         |-> RowId(token_value),
      user_id    |-> user_id,
      token_hash |-> hash_token(token_value),
      expires_at |-> now + REFRESH_TOKEN_EXPIRE_DAYS,
      revoked    |-> FALSE ]

\* Mutant of Revoke: the UPDATE has no WHERE clause.
Revoke_every_row(ids) ==
    { [rt EXCEPT !.revoked = TRUE] : rt \in refresh_tokens }

\* Mutant of Revoke: the flag is never written.
Revoke_forgotten(ids) == refresh_tokens

\* Mutant of Revoke: the flag of every row is set to whether it is in ids.
Revoke_swapping(ids) ==
    { [rt EXCEPT !.revoked = (rt.id \in ids)] : rt \in refresh_tokens }

\* UPDATE refresh_tokens SET revoked = true WHERE id IN ids.
Revoke(ids) ==
    { IF rt.id \in ids THEN [rt EXCEPT !.revoked = TRUE] ELSE rt :
        rt \in refresh_tokens }

\* settings.SECRET_KEY of this process, and a key it does not sign with.
SecretKey == "s1"
OtherSecret == "s2"

\* No bearer token.
NoBearer == [ key |-> "", sub |-> "", exp |-> 0, json |-> FALSE,
              role |-> "" ]

\* create_access_token: sub, role and exp signed with SECRET_KEY.  The role
\* is the one of the User object the handler loaded.
create_access_token(user_id) ==
    [ key |-> SecretKey, sub |-> user_id,
      exp |-> now * MinutesPerDay + ACCESS_TOKEN_EXPIRE_MINUTES,
      json |-> TRUE,
      role |-> IF user_id \in DOMAIN users THEN users[user_id].role
               ELSE "" ]

\* Bearer tokens no answer carried: signed with another key, a payload that
\* is no JSON object, a payload without sub.
ForgedBearers ==
    { [ key |-> OtherSecret, sub |-> "u1",
        exp |-> (MaxTicks * REFRESH_TOKEN_EXPIRE_DAYS + 1) * MinutesPerDay,
        json |-> TRUE, role |-> "admin" ],
      [ key |-> SecretKey, sub |-> "u1",
        exp |-> (MaxTicks * REFRESH_TOKEN_EXPIRE_DAYS + 1) * MinutesPerDay,
        json |-> FALSE, role |-> "admin" ],
      [ key |-> SecretKey, sub |-> "",
        exp |-> (MaxTicks * REFRESH_TOKEN_EXPIRE_DAYS + 1) * MinutesPerDay,
        json |-> TRUE, role |-> "admin" ] }

\* Mutant of decode_access_token: the signature is not verified.
decode_access_token_unsigned(token) ==
    IF token.json /\ ~(token.exp < now * MinutesPerDay)
    THEN [ valid |-> TRUE, sub |-> token.sub ]
    ELSE [ valid |-> FALSE, sub |-> "" ]

\* Mutant of decode_access_token: the exp claim is not looked at.
decode_access_token_unexpiring(token) ==
    IF token.key = SecretKey /\ token.json
    THEN [ valid |-> TRUE, sub |-> token.sub ]
    ELSE [ valid |-> FALSE, sub |-> "" ]

\* jwt.decode with its except JWTError: the payload, or None for a
\* signature that does not verify, a payload that is no JSON object, or an
\* exp claim in the past.
decode_access_token(token) ==
    IF token.key = SecretKey /\ token.json
          /\ ~(token.exp < now * MinutesPerDay)
    THEN [ valid |-> TRUE, sub |-> token.sub ]
    ELSE [ valid |-> FALSE, sub |-> "" ]

\* The row log_action adds.
AuditEntry(user_id, action, resource, details) ==
    [ user_id |-> user_id, action |-> action, resource |-> resource,
      details |-> details ]

UserByUsername(username) ==
    { u \in DOMAIN users : users[u].username = username }

(* ------------------------- encryption_service.py ----------------------- *)
\* settings.ENCRYPTION_KEY of this process, and a key of another deployment.
EncryptionKey == "k1"
ForeignKey == "k2"

\* Fernet.encrypt: a token is bound to its key and carries an HMAC tag.
FernetEncrypt(key, data) ==
    [ token |-> TRUE, key |-> key, data |-> data, intact |-> TRUE ]

\* Fernet.decrypt: the payload, or InvalidToken for bytes that are no token,
\* a token under another key, or a token whose tag does not verify.
FernetDecrypt(key, blob) ==
    IF blob.token /\ blob.key = key /\ blob.intact
    THEN [ ok |-> TRUE, data |-> blob.data ]
    ELSE [ ok |-> FALSE, data |-> "InvalidToken" ]

encrypt_bytes(data) == FernetEncrypt(EncryptionKey, data)

decrypt_bytes(data) == FernetDecrypt(EncryptionKey, data)

\* ENCRYPTION_KEY values: base64 of 32 bytes, base64 of 16 bytes, and a
\* string base64 does not decode.
ShortKey == "k16"
UndecodableKey == "k?"
ConfiguredKeys == {EncryptionKey, ShortKey, UndecodableKey}

\* base64.urlsafe_b64decode(key) succeeds and yields exactly 32 bytes.
KeyValid(key) == key \in {EncryptionKey, ForeignKey}

\* A str or bytes value that is no Fernet token; None.
Plain(text) == [ token |-> FALSE, key |-> "", data |-> text,
                 intact |-> FALSE ]
NoneValue == Plain("#None")

\* "not value": None and the empty string.
Falsy(value) == ~value.token /\ value.data \in {"#None", ""}

\* Mutant of encrypt: the empty string is encrypted like any other.
encrypt_empty(value) ==
    IF value = NoneValue THEN value
    ELSE FernetEncrypt(EncryptionKey, value)

\* encrypt: None and "" are returned as they are; any other string becomes
\* the token of its bytes.
encrypt(value) ==
    IF Falsy(value) THEN value
    ELSE FernetEncrypt(EncryptionKey, value)

\* The sentinel decrypt returns for InvalidToken.
DecryptionFailed == Plain("[decryption failed]")

\* Mutant of decrypt: a token made under any key is opened.
decrypt_any_key(value) ==
    IF Falsy(value) THEN value
    ELSE IF value.token /\ value.intact THEN value.data
    ELSE DecryptionFailed

\* decrypt: None and "" are returned as they are; a token of this key gives
\* its text; anything else gives the sentinel.
decrypt(value) ==
    IF Falsy(value) THEN value
    ELSE LET opened == FernetDecrypt(EncryptionKey, value) IN
         IF opened.ok THEN opened.data ELSE DecryptionFailed

(* ------------------------------ api/backup.py -------------------------- *)
\* A key that a JSON object does not hold.
Absent == "#absent"
\* JSON null and a JSON number where a string is expected.
JsonNull == "#null"
JsonNumber == "#number"
\* A JSON array where a string is expected: a Python list, which has no hash.
JsonArray == "#array"

\* Canonical UUID strings: patients, assessments, selections, accounts
\* (u9 is the id of no account).
PatientUUIDs == {"p1", "p2"}
AssessmentUUIDs == {"a1", "a2"}
SelectionUUIDs == {"s1", "s2"}
CanonicalUUIDs ==
    PatientUUIDs \cup AssessmentUUIDs \cup SelectionUUIDs \cup UserIds
        \cup {"u9"}
\* Spellings uuid.UUID accepts and str() rewrites (upper case, braces, urn).
OtherSpelling == [ x \in {"P1"} |-> "p1" ]

\* What uuid.UUID raises.
UUIDErrors == {"ValueError", "AttributeError", "TypeError"}

\* str(uuid.UUID(value)), or the exception raised.
UUIDParse(value) ==
    IF value \in CanonicalUUIDs THEN value
    ELSE IF value \in DOMAIN OtherSpelling THEN OtherSpelling[value]
    ELSE IF value = JsonNull THEN "TypeError"
    ELSE IF value = JsonNumber THEN "AttributeError"
    ELSE "ValueError"

\* _validate_uuid catches ValueError and AttributeError and answers 400; any
\* other exception leaves the handler unhandled (500).
ValidateUUIDStatus(value) ==
    IF UUIDParse(value) \in {"ValueError", "AttributeError"} THEN 400
    ELSE IF UUIDParse(value) \in UUIDErrors THEN 500
    ELSE 200

\* str(uuid.UUID(data.get("created_by", ""))) with its except clause: the
\* operator's id for a missing or malformed value.
CreatedBy(value, operator) ==
    LET parsed == UUIDParse(IF value = Absent THEN "" ELSE value) IN
    IF parsed \in {"ValueError", "AttributeError"} THEN operator ELSE parsed

\* uuid.UUID(None) raises TypeError, which the except clause around
\* created_by does not name: the exception leaves the handler.
CreatedByRaises(value) ==
    UUIDParse(IF value = Absent THEN "" ELSE value)
        \notin CanonicalUUIDs \cup {"ValueError", "AttributeError"}

VALID_SEVERITIES == {"normal", "mild", "moderate", "severe"}

\* s_data.get("severity", "normal"), replaced by "normal" unless valid.
\* `severity not in VALID_SEVERITIES` hashes the value to look it up in the
\* set: a list raises TypeError, which nothing in the handler catches.
SeverityRaises(value) == value = JsonArray

Severity(value) ==
    LET given == IF value = Absent THEN "normal" ELSE value IN
    IF given \in VALID_SEVERITIES THEN given ELSE "normal"

\* The uploaded bytes: a token of this key, a corrupted one, one made under
\* another key, or bytes that are no token at all.
NotJson == [ json |-> FALSE, type |-> "", keys |-> {}, list |-> FALSE ]
\* Top-level JSON values: null, a string, an array, and objects with any of
\* the keys version and patients, patients being a list or not.
Documents ==
    { [ json |-> TRUE, type |-> t, keys |-> {}, list |-> FALSE ] :
        t \in {"null", "string", "array"} }
    \cup { [ json |-> TRUE, type |-> "object", keys |-> k, list |-> l ] :
             k \in SUBSET {"version", "patients"}, l \in BOOLEAN }
Uploads ==
    { FernetEncrypt(k, d) : k \in {EncryptionKey, ForeignKey},
                            d \in Documents \cup {NotJson} }
    \cup { [ FernetEncrypt(EncryptionKey, d) EXCEPT !.intact = FALSE ] :
             d \in Documents }
    \cup { [ token |-> FALSE, key |-> "", data |-> NotJson, intact |-> FALSE ] }

\* json.loads(json_bytes.decode("utf-8")): the value, or an exception.
JsonLoads(data) ==
    IF data.json THEN [ ok |-> TRUE, value |-> data ]
    ELSE [ ok |-> FALSE, value |-> data ]

\* The status the envelope checks of restore_backup end with; 200 lets the
\* loop over the patients start.
EnvelopeStatus(blob) ==
    LET plain == decrypt_bytes(blob) IN
    IF ~plain.ok THEN 400
    ELSE LET doc == JsonLoads(plain.data) IN
         IF ~doc.ok THEN 400
         \* "version" not in backup_data: TypeError for a value that is no
         \* container.
         ELSE IF doc.value.type = "null" THEN 500
         ELSE IF doc.value.type # "object" THEN 400
         ELSE IF ~ {"version", "patients"} \subseteq doc.value.keys THEN 400
         ELSE IF ~doc.value.list THEN 400
         ELSE 200

\* A phone column as the API stores it: the token of the number.  In an
\* entry, phone is the value of p_data.get("phone"): None when the key is
\* missing.
StoredPhone == FernetEncrypt(EncryptionKey, Plain("010"))

\* The entries of the patients list as the loop meets them: objects with
\* an id and a name, and the malformed ones (no id, no name, no object).
PatientEntries ==
    { [ dict |-> TRUE, id |-> i, name |-> "new", phone |-> StoredPhone,
        created_by |-> c ] :
        i \in PatientUUIDs \cup {"P1", "bad", JsonNull, JsonNumber},
        c \in {"u2", "u9", "bad", JsonNull, Absent} }
    \cup { [ dict |-> TRUE, id |-> Absent, name |-> "new",
             phone |-> NoneValue, created_by |-> Absent ],
           [ dict |-> TRUE, id |-> "bad", name |-> Absent,
             phone |-> NoneValue, created_by |-> Absent ],
           [ dict |-> FALSE, id |-> Absent, name |-> Absent,
             phone |-> NoneValue, created_by |-> Absent ] }
\* The entries of an assessments list.
AssessmentEntries ==
    { [ dict |-> TRUE, id |-> i, created_by |-> c ] :
        i \in AssessmentUUIDs \cup {"bad", JsonNull},
        c \in {"u2", JsonNull, Absent} }
    \cup { [ dict |-> TRUE, id |-> Absent, created_by |-> Absent ],
           [ dict |-> FALSE, id |-> Absent, created_by |-> Absent ] }
\* The entries of a selections list.
SelectionEntries ==
    { [ dict |-> TRUE, id |-> i, mesh_id |-> "mesh", severity |-> v ] :
        i \in SelectionUUIDs \cup {"bad", JsonNull},
        v \in {"mild", "bogus", JsonArray, Absent} }
    \cup { [ dict |-> TRUE, id |-> Absent, mesh_id |-> "mesh",
             severity |-> Absent ],
           [ dict |-> TRUE, id |-> "bad", mesh_id |-> Absent,
             severity |-> Absent ],
           [ dict |-> FALSE, id |-> Absent, mesh_id |-> Absent,
             severity |-> Absent ] }

\* Well-formed entries: the ones the loops do not skip.
\* Mutant of PatientWellFormed: an entry without a name is not skipped.
PatientWellFormed_nameless(e) == e.dict /\ e.id # Absent
PatientWellFormed(e) == e.dict /\ e.id # Absent /\ e.name # Absent
AssessmentWellFormed(e) == e.dict /\ e.id # Absent
SelectionWellFormed(e) == e.dict /\ e.id # Absent /\ e.mesh_id # Absent

\* Rows as the models declare them and as restore_backup builds them (the
\* other nullable columns are copied from the entry like phone and
\* overall_notes); created_at is left to its server default, the time of the
\* insert.
PatientRow(id, name, phone, created_by) ==
    [ id |-> id, name |-> name, phone |-> phone, created_by |-> created_by,
      created_at |-> now ]
AssessmentRow(id, patient_id, created_by) ==
    [ id |-> id, patient_id |-> patient_id, created_by |-> created_by,
      created_at |-> now ]
SelectionRow(id, assessment_id, mesh_id, severity) ==
    [ id |-> id, assessment_id |-> assessment_id, mesh_id |-> mesh_id,
      severity |-> severity ]

Ids(rows) == { row.id : row \in rows }

\* Stores a restore may find: empty, or one patient with an assessment and a
\* selection.
SeedStores ==
    { [ patients |-> {}, assessments |-> {}, selections |-> {} ],
      [ patients |-> {PatientRow("p1", "old", StoredPhone, "u1")},
        assessments |-> {AssessmentRow("a1", "p1", "u1")},
        selections |-> {SelectionRow("s1", "a1", "mesh", "severe")} ] }

\* A NULL column.
Null == "#NULL"

\* The bytes of no artifact.
NoArtifact == [ token |-> FALSE, key |-> "", data |-> NotJson,
                intact |-> FALSE ]

\* No export has been made.
NoBackup ==
    [ stage |-> "none", artifact |-> NoArtifact, operator |-> "",
      status |-> 0,
      source |-> [ patients |-> {}, assessments |-> {}, selections |-> {} ] ]

\* The encryption service of a process that started with the configured
\* key and has built its Fernet.
NoCall == [ call |-> "none", arg |-> NoArtifact, result |-> NoArtifact,
            raised |-> "" ]

\* No migration script has been run.
NoColumns == [ phone |-> NoArtifact, notes |-> NoArtifact,
               overall_notes |-> NoArtifact, photo |-> NoArtifact ]
\* No invite, no link, no portal request.
NoPortal ==
    [ invites |-> {}, links |-> {}, registered |-> {}, n |-> 0,
      pr |-> [ r \in Slots |->
                 [ op |-> "idle", pc |-> "idle", code |-> "",
                   username |-> "", invite |-> "", user |-> "",
                   status |-> 0, valid |-> FALSE, late |-> FALSE ] ] ]

NoMigration ==
    [ pc |-> "idle", dry_run |-> FALSE, runs |-> 0, settled |-> FALSE,
      migrated |-> FALSE, initial |-> NoColumns, start |-> NoColumns,
      store |-> NoColumns, reported |-> {}, ddl |-> FALSE,
      committed |-> FALSE ]

EncLoaded ==
    [ key |-> EncryptionKey, phase |-> "serving", fernet |-> TRUE,
      fkey |-> EncryptionKey, inits |-> 1,
      last |-> NoCall, prev |-> NoCall ]

RestoreIdle ==
    [ pc |-> "idle", operator |-> "", patient_id |-> "", assessment_id |-> "",
      i |-> 0, j |-> 0, k |-> 0,
      new_patients |-> {}, new_assessments |-> {}, new_selections |-> {},
      doomed |-> FALSE, restored_count |-> 0, skipped_count |-> 0,
      status |-> 0, restored_patients |-> 0,
      upload |-> [ token |-> FALSE, key |-> "", data |-> NotJson,
                   intact |-> FALSE ],
      entry |-> [ level |-> "none" ], found |-> FALSE, existing |-> 0,
      malformed |-> 0, n |-> 0 ]

(* ------------------------------ requests ------------------------------- *)
\* The role dependency of an endpoint: require_role(*roles) or
\* require_min_role(min_role); none for an endpoint any account may call.
NoGuard == [ roles |-> {}, min_role |-> "" ]

Idle ==
    [ op |-> "idle", pc |-> "idle", user |-> "", username |-> "",
      password |-> "", new_password |-> "", loaded_hash |-> <<>>,
      token |-> 0, rt |-> {}, status |-> 0, refresh |-> 0, late |-> FALSE,
      detail |-> "", bearer |-> NoBearer, access |-> NoBearer,
      target |-> "", guard |-> NoGuard ]

Respond(r, status) ==
    req' = [req EXCEPT ![r].pc = "done", ![r].status = status]

Goto(r, pc) == req' = [req EXCEPT ![r].pc = pc]

\* The store a request finds when it starts.
Snapshot == [ users |-> users, refresh_tokens |-> refresh_tokens,
              audit_logs |-> audit_logs, now |-> now, patients |-> patients,
              assessments |-> assessments, selections |-> selections ]

\* A request is accepted into slot r, the first free one.  serial: no other
\* request is in flight.
Accept(r, serial) ==
    /\ req[r].op = "idle"
    /\ r = "r1" \/ req["r1"].op # "idle"
    /\ nreq < MaxRequests
    /\ serial => \A q \in Slots : req[q].op = "idle"
    /\ nreq' = nreq + 1
    /\ pre' = IF serial THEN Snapshot ELSE pre

\* The accounts of the installation: the seeded admin and a doctor.
SeededUsers ==
    [ u \in UserIds |->
        IF u = "u1"
        THEN [ username |-> "admin",
               password_hash |-> hash_password("admin1234"),
               role |-> "admin", is_active |-> TRUE,
               last_login_at |-> Never ]
        ELSE [ username |-> "bob",
               password_hash |-> hash_password("abcdef"),
               role |-> "doctor", is_active |-> TRUE,
               last_login_at |-> Never ] ]

InitAuth ==
    /\ users = SeededUsers
    /\ refresh_tokens = {}
    /\ audit_logs = <<>>
    /\ now = 0
    /\ uuid_counter = 0
    /\ req = [ r \in Slots |-> Idle ]
    /\ nreq = 0
    /\ nticks = 0
    /\ redeemed = EmptyBag
    /\ pre = [ users |-> <<>>, refresh_tokens |-> {}, audit_logs |-> <<>>,
               now |-> 0, patients |-> {}, assessments |-> {},
               selections |-> {} ]
    /\ rq = RestoreIdle
    /\ held = {}

\* The state after startup: the accounts, no session, no clinical row.
Init ==
    /\ InitAuth
    /\ patients = {} /\ assessments = {} /\ selections = {}
    /\ autoflush = TRUE
    /\ bk = NoBackup
    /\ mig = NoMigration
    /\ portal = NoPortal
    /\ enc = EncLoaded

\* A store a restore may meet, under either session configuration.
InitRestore ==
    /\ InitAuth
    /\ \E seed \in SeedStores :
         /\ patients = seed.patients
         /\ assessments = seed.assessments
         /\ selections = seed.selections
    /\ autoflush \in BOOLEAN
    /\ bk = NoBackup
    /\ mig = NoMigration
    /\ portal = NoPortal
    /\ enc = EncLoaded

(* ------------------------- deps.get_current_user ----------------------- *)
\* The bearer token names account req[r].user; the account is read from the
\* store and must exist and be active.
\* Mutant of AccountAccepted: an account without a session that is not
\* revoked is turned away.
AccountAccepted_session(u) ==
    /\ u \in DOMAIN users
    /\ users[u].is_active
    /\ ActiveSessionsOf(u) # {}

\* if not user or not user.is_active: 401.
AccountAccepted(u) == u \in DOMAIN users /\ users[u].is_active

get_current_user(r) ==
    /\ req[r].pc = "current_user"
    /\ LET u == req[r].user IN
       IF ~AccountAccepted(u)
       THEN Respond(r, 401)
       ELSE req' = [req EXCEPT
                ![r].pc = IF req[r].op = "logout" THEN "revoke_select"
                          ELSE IF req[r].op = "me" THEN "done"
                          ELSE IF req[r].op = "guarded" THEN "role"
                          ELSE "check",
                ![r].status = IF req[r].op = "me" THEN 200 ELSE @,
                ![r].loaded_hash = users[u].password_hash]
    /\ UNCHANGED <<backupVars, held, enc, users, refresh_tokens, audit_logs, now, uuid_counter, nreq,
                   nticks, redeemed, pre>>

(* ------------------------------ api/auth.py ---------------------------- *)
login_start(r, serial, username, password) ==
    /\ Accept(r, serial)
    /\ req' = [req EXCEPT ![r] = [Idle EXCEPT !.op = "login",
                 !.pc = "authenticate", !.username = username,
                 !.password = password]]
    /\ UNCHANGED <<backupVars, held, enc, users, refresh_tokens, audit_logs, now, uuid_counter,
                   nticks, redeemed>>

\* Mutant of Authenticated: is_active is not looked at.
Authenticated_inactive(username, password) ==
    { u \in UserByUsername(username) :
        verify_password(password, users[u].password_hash) }

\* Mutant of Authenticated: the password is not verified.
Authenticated_any_password(username, password) ==
    { u \in UserByUsername(username) : users[u].is_active }

\* authenticate_user: the account of that username if it is active and the
\* password verifies against its hash; none otherwise.
Authenticated(username, password) ==
    { u \in UserByUsername(username) :
        /\ users[u].is_active
        /\ verify_password(password, users[u].password_hash) }

\* Mutant of LoginRejection: the detail tells an unknown username from a
\* known one.
LoginRejection_telling(username) ==
    [ status |-> 401,
      detail |-> IF UserByUsername(username) = {} THEN "Unknown user"
                 ELSE "Invalid credentials" ]

\* The HTTPException login raises when authenticate_user returns None.
LoginRejection(username) ==
    [ status |-> 401, detail |-> "Invalid credentials" ]

\* authenticate_user as login calls it: None answers 401 "Invalid
\* credentials".
authenticate_user(r) ==
    /\ req[r].pc = "authenticate"
    /\ LET found == Authenticated(req[r].username, req[r].password)
           no == LoginRejection(req[r].username)
       IN  IF found = {}
           THEN req' = [req EXCEPT ![r].pc = "done",
                                   ![r].status = no.status,
                                   ![r].detail = no.detail]
           ELSE req' = [req EXCEPT ![r].pc = "stamp",
                                   ![r].user = CHOOSE u \in found : TRUE]
    /\ UNCHANGED <<backupVars, held, enc, users, refresh_tokens, audit_logs, now, uuid_counter, nreq,
                   nticks, redeemed, pre>>

\* user.last_login_at = now; commit.
login_stamp(r) ==
    /\ req[r].pc = "stamp"
    /\ users' = [users EXCEPT ![req[r].user].last_login_at = {now}]
    /\ Goto(r, "issue")
    /\ UNCHANGED <<backupVars, held, enc, refresh_tokens, audit_logs, now, uuid_counter, nreq,
                   nticks, redeemed, pre>>

\* create_access_token, then create_refresh_token: a fresh uuid4 value, its
\* row added and committed, the raw value returned.
create_refresh_token(r) ==
    /\ req[r].pc = "issue"
    /\ uuid_counter' = uuid_counter + 1
    /\ refresh_tokens' =
         refresh_tokens \cup {NewSession(req[r].user, uuid_counter')}
    /\ IF req[r].op = "login"
       THEN /\ req' = [req EXCEPT ![r].pc = "log",
                                  ![r].refresh = uuid_counter',
                                  ![r].access =
                                      create_access_token(req[r].user)]
            /\ UNCHANGED redeemed
       ELSE /\ req' = [req EXCEPT ![r].pc = "done", ![r].status = 200,
                                  ![r].refresh = uuid_counter',
                                  ![r].access =
                                      create_access_token(req[r].user)]
            /\ redeemed' = redeemed (+) SetToBag({req[r].token})
    /\ UNCHANGED <<backupVars, held, enc, users, audit_logs, now, nreq, nticks, pre>>

\* log_action for login, logout and change_password, then the 200 answer.
log_action(r) ==
    /\ req[r].pc = "log"
    /\ audit_logs' = Append(audit_logs,
         AuditEntry(req[r].user,
                    IF req[r].op = "password" THEN "password_change"
                    ELSE req[r].op,
                    "auth", <<>>))
    /\ Respond(r, 200)
    /\ UNCHANGED <<backupVars, held, enc, users, refresh_tokens, now, uuid_counter, nreq, nticks,
                   redeemed, pre>>

\* The refresh values clients hold: those an answer has carried.
Returned ==
    { v \in 1 .. uuid_counter :
        \A q \in Slots : req[q].refresh = v => req[q].pc = "done" }

refresh_start(r, serial, token_value) ==
    /\ Accept(r, serial)
    /\ token_value \in ForgedTokens \cup Returned
    /\ req' = [req EXCEPT ![r] = [Idle EXCEPT !.op = "refresh",
                 !.pc = "validate", !.token = token_value,
                 !.late = (CopiesIn(token_value, redeemed) > 0)]]
    /\ UNCHANGED <<backupVars, held, enc, users, refresh_tokens, audit_logs, now, uuid_counter,
                   nticks, redeemed>>

\* Mutant of RejectPresented: a presented value whose row is revoked or
\* expired revokes every row of the row's account.
RejectPresented_family(token_value) ==
    LET owners == { rt.user_id : rt \in { x \in refresh_tokens :
                        x.token_hash = hash_token(token_value) } }
    IN  { IF rt.user_id \in owners THEN [rt EXCEPT !.revoked = TRUE] ELSE rt :
            rt \in refresh_tokens }

\* if not rt: return None.  The table after a presentation the SELECT found
\* no row for: nothing is written.
RejectPresented(token_value) == refresh_tokens

\* validate_refresh_token, the SELECT: no matching row answers 401.
validate_select(r) ==
    /\ req[r].pc = "validate"
    /\ LET rows == ValidSessions(req[r].token) IN
       IF rows = {}
       THEN /\ Respond(r, 401)
            /\ refresh_tokens' = RejectPresented(req[r].token)
       ELSE /\ req' = [req EXCEPT
                         ![r].pc = "rotate",
                         ![r].rt = { rt.id : rt \in rows },
                         ![r].user = (CHOOSE rt \in rows : TRUE).user_id]
            /\ UNCHANGED refresh_tokens
    /\ UNCHANGED <<backupVars, held, enc, users, audit_logs, now,
                   uuid_counter, nreq, nticks, redeemed, pre>>

\* validate_refresh_token, rt.revoked = True; commit.
validate_revoke(r) ==
    /\ req[r].pc = "rotate"
    /\ refresh_tokens' = Revoke(req[r].rt)
    /\ Goto(r, "fetch")
    /\ UNCHANGED <<backupVars, held, enc, users, audit_logs, now, uuid_counter, nreq, nticks,
                   redeemed, pre>>

\* Mutant of OwnerUsable: the active flag of the owner is not looked at.
OwnerUsable_inactive(u) == u \in DOMAIN users

\* if not user or not user.is_active: return None.
OwnerUsable(u) == u \in DOMAIN users /\ users[u].is_active

\* validate_refresh_token, the owner is fetched: a missing or inactive owner
\* answers 401 with the row already revoked.
validate_fetch_user(r) ==
    /\ req[r].pc = "fetch"
    /\ LET u == req[r].user IN
       IF ~OwnerUsable(u)
       THEN Respond(r, 401)
       ELSE Goto(r, "issue")
    /\ UNCHANGED <<backupVars, held, enc, users, refresh_tokens, audit_logs, now, uuid_counter, nreq,
                   nticks, redeemed, pre>>

logout_start(r, serial, user_id) ==
    /\ Accept(r, serial)
    /\ req' = [req EXCEPT ![r] = [Idle EXCEPT !.op = "logout",
                 !.pc = "current_user", !.user = user_id]]
    /\ UNCHANGED <<backupVars, held, enc, users, refresh_tokens, audit_logs, now, uuid_counter,
                   nticks, redeemed>>

\* revoke_all_user_tokens, the SELECT of the account's non-revoked rows.
revoke_select(r) ==
    /\ req[r].pc = "revoke_select"
    /\ req' = [req EXCEPT ![r].pc = "revoke_commit",
                 ![r].rt = { rt.id : rt \in ActiveSessionsOf(req[r].user) }]
    /\ UNCHANGED <<backupVars, held, enc, users, refresh_tokens, audit_logs, now, uuid_counter, nreq,
                   nticks, redeemed, pre>>

\* revoke_all_user_tokens, rt.revoked = True for each selected row; commit.
revoke_commit(r) ==
    /\ req[r].pc = "revoke_commit"
    /\ refresh_tokens' = Revoke(req[r].rt)
    /\ Goto(r, "log")
    /\ UNCHANGED <<backupVars, held, enc, users, audit_logs, now, uuid_counter, nreq, nticks,
                   redeemed, pre>>

password_start(r, serial, user_id, current_password, new_password) ==
    /\ Accept(r, serial)
    /\ req' = [req EXCEPT ![r] = [Idle EXCEPT !.op = "password",
                 !.pc = "current_user", !.user = user_id,
                 !.password = current_password,
                 !.new_password = new_password]]
    /\ UNCHANGED <<backupVars, held, enc, users, refresh_tokens, audit_logs, now, uuid_counter,
                   nticks, redeemed>>

\* Mutant of PasswordChangeAllowed: a new password of exactly the minimum
\* length is refused.
PasswordChangeAllowed_strict(current_password, stored_hash, new_password) ==
    /\ verify_password(current_password, stored_hash)
    /\ Len(new_password) > MIN_PASSWORD_LENGTH

\* Whether change_password accepts the request body.
PasswordChangeAllowed(current_password, stored_hash, new_password) ==
    /\ verify_password(current_password, stored_hash)
    /\ Len(new_password) >= MIN_PASSWORD_LENGTH

\* change_password up to its first commit: 400 for a wrong current password
\* or a short new one, else the new hash is stored.
change_password(r) ==
    /\ req[r].pc = "check"
    /\ IF PasswordChangeAllowed(req[r].password, req[r].loaded_hash,
                                req[r].new_password)
       THEN /\ users' = [users EXCEPT ![req[r].user].password_hash =
                            hash_password(req[r].new_password)]
            /\ Goto(r, "revoke_select")
       ELSE /\ Respond(r, 400)
            /\ UNCHANGED users
    /\ UNCHANGED <<backupVars, held, enc, refresh_tokens, audit_logs, now, uuid_counter, nreq,
                   nticks, redeemed, pre>>

(* ------------------------------ api/users.py --------------------------- *)
\* update_user by an active admin, body {is_active}.
update_user(serial, admin, user_id, is_active) ==
    /\ nreq < MaxRequests
    /\ serial => \A q \in Slots : req[q].op = "idle"
    /\ admin \in DOMAIN users
    /\ users[admin].is_active /\ users[admin].role = "admin"
    /\ user_id \in DOMAIN users
    /\ users[user_id].is_active # is_active
    /\ users' = [users EXCEPT ![user_id].is_active = is_active]
    /\ nreq' = nreq + 1
    /\ pre' = IF serial THEN Snapshot ELSE pre
    /\ UNCHANGED <<backupVars, held, enc, refresh_tokens, audit_logs, now, uuid_counter, req, nticks,
                   redeemed>>

(* ------------------------------ environment ---------------------------- *)
\* The answer is delivered and the slot is free again; the client keeps the
\* access token of a TokenResponse.
Deliver(r) ==
    /\ req[r].pc = "done"
    /\ req' = [req EXCEPT ![r] = Idle]
    /\ held' = IF req[r].status = 200 /\ req[r].access # NoBearer
               THEN held \cup {req[r].access} ELSE held
    /\ UNCHANGED <<backupVars, enc, users, refresh_tokens, audit_logs, now, uuid_counter, nreq,
                   nticks, redeemed, pre>>

Tick(d) ==
    /\ nticks < MaxTicks
    /\ now' = now + d
    /\ nticks' = nticks + 1
    /\ UNCHANGED <<backupVars, held, enc, users, refresh_tokens, audit_logs, uuid_counter, req, nreq,
                   redeemed, pre>>

\* One step of a handler in flight.
Step(r) ==
    \/ get_current_user(r)
    \/ authenticate_user(r)
    \/ login_stamp(r)
    \/ create_refresh_token(r)
    \/ log_action(r)
    \/ validate_select(r)
    \/ validate_revoke(r)
    \/ validate_fetch_user(r)
    \/ revoke_select(r)
    \/ revoke_commit(r)
    \/ change_password(r)
    \/ Deliver(r)

\* A request arrives.
Arrive(serial) ==
    \/ \E r \in Slots, n \in Usernames, p \in Passwords :
         login_start(r, serial, n, p)
    \/ \E r \in Slots, t \in ForgedTokens \cup (1 .. MaxRequests) :
         refresh_start(r, serial, t)
    \/ \E r \in Slots, u \in UserIds : logout_start(r, serial, u)
    \/ \E r \in Slots, u \in UserIds, p \in Passwords, n \in Passwords :
         password_start(r, serial, u, p, n)
    \/ \E a \in UserIds, u \in UserIds, b \in BOOLEAN :
         update_user(serial, a, u, b)

\* Requests interleave at every awaited read and commit.
Next ==
    \/ Arrive(FALSE)
    \/ \E r \in Slots : Step(r)
    \/ \E d \in TickSteps : Tick(d)

Spec == Init /\ [][Next]_vars

\* Requests are served one at a time.
NextSeq ==
    \/ Arrive(TRUE)
    \/ \E r \in Slots : Step(r)
    \/ \E d \in TickSteps : Tick(d)

SpecSeq == Init /\ [][NextSeq]_vars

(* --------------------- api/auth.py: GET /api/auth/me -------------------- *)
\* A request with a bearer token: one an answer carried, or a forged one.
me_start(r, serial, token) ==
    /\ Accept(r, serial)
    /\ token \in held \cup ForgedBearers
    /\ req' = [req EXCEPT ![r] = [Idle EXCEPT !.op = "me", !.pc = "decode",
                                              !.bearer = token]]
    /\ UNCHANGED <<backupVars, held, enc, users, refresh_tokens, audit_logs,
                   now, uuid_counter, nticks, redeemed>>

\* get_current_user up to its SELECT: 401 for a token that does not decode
\* or a payload without sub.
bearer_decode(r) ==
    /\ req[r].pc = "decode"
    /\ LET payload == decode_access_token(req[r].bearer) IN
       IF ~payload.valid \/ payload.sub = ""
       THEN Respond(r, 401)
       ELSE req' = [req EXCEPT ![r].pc = "current_user",
                               ![r].user = payload.sub]
    /\ UNCHANGED <<backupVars, held, enc, users, refresh_tokens, audit_logs,
                   now, uuid_counter, nreq, nticks, redeemed, pre>>

\* Requests served one at a time, bearer requests among them.
NextAccess ==
    \/ Arrive(TRUE)
    \/ \E r \in Slots, token \in held \cup ForgedBearers :
         me_start(r, TRUE, token)
    \/ \E r \in Slots : Step(r) \/ bearer_decode(r)
    \/ \E d \in TickSteps : Tick(d)

SpecAccess == Init /\ [][NextAccess]_vars

(* ------------------------- api/backup.py: restore ----------------------- *)
\* The request ends by an exception before the commit: the rows added to
\* the session are discarded with it.
Fail(status) ==
    [rq EXCEPT !.pc = "done", !.status = status, !.new_patients = {},
               !.new_assessments = {}, !.new_selections = {}]

\* Whether the store refuses a pending row: a primary key in use, or a
\* created_by naming no account.
Refused(id, used, created_by) ==
    id \in used \/ created_by \notin DOMAIN users

\* Who sends a request to the backup endpoints: the holder of a valid token
\* of an account, of an account that has been deleted since, and a client
\* with no valid token.
Callers == UserIds \cup {"u9", "anon"}

\* Mutant of require_role: every authenticated caller passes.
require_role_any(caller, roles) ==
    IF caller \notin DOMAIN users THEN 401
    ELSE IF ~users[caller].is_active THEN 401
    ELSE 200

\* Depends(require_role(*roles)): get_current_user answers 401 without a
\* valid token of an existing, active account; then 403 unless the role of
\* the account's row is one of roles.  200 lets the handler run.
require_role(caller, roles) ==
    IF caller \notin DOMAIN users THEN 401
    ELSE IF ~users[caller].is_active THEN 401
    ELSE IF users[caller].role \notin roles THEN 403
    ELSE 200

\* POST /api/backup/restore by a caller the dependency turns away: the
\* handler does not run.
restore_refused(caller) ==
    /\ rq.pc = "idle"
    /\ require_role(caller, {"admin"}) # 200
    /\ pre' = Snapshot
    /\ rq' = [rq EXCEPT !.pc = "refused", !.operator = caller,
                        !.status = require_role(caller, {"admin"})]
    /\ UNCHANGED <<users, refresh_tokens, audit_logs, now, uuid_counter, req,
                   nreq, nticks, redeemed, patients, assessments, selections,
                   autoflush, bk, mig, portal, held, enc>>

\* POST /api/backup/restore by an active admin: the upload is decrypted,
\* parsed and checked for its top-level shape.
restore_open(operator, blob) ==
    /\ rq.pc = "idle"
    /\ require_role(operator, {"admin"}) = 200
    /\ pre' = Snapshot
    /\ LET status == EnvelopeStatus(blob)
           opened == [rq EXCEPT !.operator = operator, !.upload = blob]
       IN  rq' = IF status = 200
                 THEN [opened EXCEPT !.pc = "patients"]
                 ELSE [opened EXCEPT !.pc = "done", !.status = status]
    /\ UNCHANGED <<users, refresh_tokens, audit_logs, now, uuid_counter, req,
                   nreq, nticks, redeemed, patients, assessments, selections,
                   autoflush, bk, mig, portal, held, enc>>

\* Mutant of SkipExisting: the patient found in the store is kept, and the
\* entry's assessments are read and attached to it.
SkipExisting_merge(id, drawn) ==
    [drawn EXCEPT !.pc = "assessments", !.patient_id = id, !.j = 0,
                  !.found = TRUE, !.existing = @ + 1]

\* Mutant of SkipExisting: the patient found in the store is counted as
\* restored.
SkipExisting_counted(id, drawn) ==
    [drawn EXCEPT !.i = @ + 1, !.found = TRUE, !.existing = @ + 1,
                  !.restored_count = @ + 1]

\* if existing.scalar_one_or_none(): continue
SkipExisting(id, drawn) ==
    [drawn EXCEPT !.i = @ + 1, !.found = TRUE, !.existing = @ + 1]

\* One turn of the loop over backup_data["patients"] for entry e, up to the
\* loop over its assessments.
PatientStep(e, drawn) ==
    IF ~PatientWellFormed(e)
    THEN [drawn EXCEPT !.skipped_count = @ + 1, !.malformed = @ + 1,
                       !.i = @ + 1]
    ELSE IF ValidateUUIDStatus(e.id) # 200
    THEN [Fail(ValidateUUIDStatus(e.id)) EXCEPT !.entry = drawn.entry, !.n = drawn.n]
    \* The SELECT flushes the pending rows first when autoflush is on.
    ELSE IF autoflush /\ rq.doomed
    THEN [Fail(500) EXCEPT !.entry = drawn.entry, !.n = drawn.n]
    ELSE LET id == UUIDParse(e.id)
             created_by == CreatedBy(e.created_by, rq.operator)
         IN  IF \/ id \in Ids(patients)
                \/ autoflush /\ id \in Ids(rq.new_patients)
             THEN SkipExisting(id, drawn)
             ELSE IF CreatedByRaises(e.created_by)
             THEN [Fail(500) EXCEPT !.entry = drawn.entry, !.n = drawn.n]
             ELSE [drawn EXCEPT
                     !.pc = "assessments", !.patient_id = id, !.j = 0,
                     !.new_patients =
                        @ \cup {PatientRow(id, e.name, e.phone, created_by)},
                     !.doomed = @ \/ Refused(id, Ids(rq.new_patients),
                                            created_by)]

restore_patient(e) ==
    /\ rq.pc = "patients"
    /\ rq.n < MaxEntries
    /\ rq' = PatientStep(e, [rq EXCEPT !.found = FALSE, !.n = @ + 1,
                  !.entry = [ level |-> "patient", e |-> e ]])
    /\ UNCHANGED <<users, refresh_tokens, audit_logs, now, uuid_counter, req,
                   nreq, nticks, redeemed, pre, patients, assessments,
                   selections, autoflush, bk, mig, portal, held, enc>>

\* One turn of the loop over p_data["assessments"] for entry e, up to the
\* loop over its selections.
restore_assessment(e) ==
    /\ rq.pc = "assessments"
    /\ rq.n < MaxEntries
    /\ LET drawn == [rq EXCEPT !.j = @ + 1, !.n = @ + 1,
                       !.entry = [ level |-> "assessment", e |-> e ]]
       IN  rq' =
             IF ~AssessmentWellFormed(e)
             THEN drawn
             ELSE IF ValidateUUIDStatus(e.id) # 200
             THEN [Fail(ValidateUUIDStatus(e.id)) EXCEPT
                     !.entry = drawn.entry, !.n = drawn.n]
             ELSE IF CreatedByRaises(e.created_by)
             THEN [Fail(500) EXCEPT !.entry = drawn.entry, !.n = drawn.n]
             ELSE LET id == UUIDParse(e.id)
                      created_by == CreatedBy(e.created_by, rq.operator)
                  IN  [drawn EXCEPT
                         !.pc = "selections", !.assessment_id = id, !.k = 0,
                         !.new_assessments =
                            @ \cup {AssessmentRow(id, rq.patient_id,
                                                  created_by)},
                         !.doomed = @ \/ Refused(id,
                            Ids(assessments) \cup Ids(rq.new_assessments),
                            created_by)]
    /\ UNCHANGED <<users, refresh_tokens, audit_logs, now, uuid_counter, req,
                   nreq, nticks, redeemed, pre, patients, assessments,
                   selections, autoflush, bk, mig, portal, held, enc>>

\* One turn of the loop over a_data["selections"] for entry e.
restore_selection(e) ==
    /\ rq.pc = "selections"
    /\ rq.n < MaxEntries
    /\ LET drawn == [rq EXCEPT !.k = @ + 1, !.n = @ + 1,
                       !.entry = [ level |-> "selection", e |-> e ]]
       IN  rq' =
             IF ~SelectionWellFormed(e)
             THEN drawn
             ELSE IF ValidateUUIDStatus(e.id) # 200
             THEN [Fail(ValidateUUIDStatus(e.id)) EXCEPT
                     !.entry = drawn.entry, !.n = drawn.n]
             ELSE IF SeverityRaises(e.severity)
             THEN [Fail(500) EXCEPT !.entry = drawn.entry, !.n = drawn.n]
             ELSE LET id == UUIDParse(e.id) IN
                  [drawn EXCEPT
                     !.new_selections =
                        @ \cup {SelectionRow(id, rq.assessment_id, e.mesh_id,
                                             Severity(e.severity))},
                     !.doomed = @ \/ id \in Ids(selections)
                                            \cup Ids(rq.new_selections)]
    /\ UNCHANGED <<users, refresh_tokens, audit_logs, now, uuid_counter, req,
                   nreq, nticks, redeemed, pre, patients, assessments,
                   selections, autoflush, bk, mig, portal, held, enc>>

\* The selections list of the assessment is exhausted.
selections_end ==
    /\ rq.pc = "selections"
    /\ rq' = [rq EXCEPT !.pc = "assessments"]
    /\ UNCHANGED <<users, refresh_tokens, audit_logs, now, uuid_counter, req,
                   nreq, nticks, redeemed, pre, patients, assessments,
                   selections, autoflush, bk, mig, portal, held, enc>>

\* The assessments list of the patient is exhausted: restored_count += 1.
assessments_end ==
    /\ rq.pc = "assessments"
    /\ rq' = [rq EXCEPT !.pc = "patients", !.i = @ + 1,
                        !.restored_count = @ + 1]
    /\ UNCHANGED <<users, refresh_tokens, audit_logs, now, uuid_counter, req,
                   nreq, nticks, redeemed, pre, patients, assessments,
                   selections, autoflush, bk, mig, portal, held, enc>>

\* The patients list is exhausted: await db.commit().  A refused row fails
\* the flush and nothing is stored.
restore_commit ==
    /\ rq.pc = "patients"
    /\ IF rq.doomed
       THEN /\ rq' = Fail(500)
            /\ UNCHANGED <<patients, assessments, selections>>
       ELSE /\ patients' = patients \cup rq.new_patients
            /\ assessments' = assessments \cup rq.new_assessments
            /\ selections' = selections \cup rq.new_selections
            /\ rq' = [rq EXCEPT !.pc = "log"]
    /\ UNCHANGED <<users, refresh_tokens, audit_logs, now, uuid_counter, req,
                   nreq, nticks, redeemed, pre, autoflush, bk, mig, portal, held, enc>>

\* log_action(..., "restore", "system", details) and the answer.
restore_log ==
    /\ rq.pc = "log"
    /\ audit_logs' = Append(audit_logs,
         AuditEntry(rq.operator, "restore", "system",
                    <<"restored_patients", rq.restored_count>>))
    /\ rq' = [rq EXCEPT !.pc = "done", !.status = 200,
                        !.restored_patients = rq.restored_count]
    /\ UNCHANGED <<users, refresh_tokens, now, uuid_counter, req, nreq,
                   nticks, redeemed, pre, patients, assessments, selections,
                   autoflush, bk, mig, portal, held, enc>>

NextRestore ==
    \/ \E o \in UserIds, blob \in Uploads : restore_open(o, blob)
    \/ \E e \in PatientEntries : restore_patient(e)
    \/ \E e \in AssessmentEntries : restore_assessment(e)
    \/ \E e \in SelectionEntries : restore_selection(e)
    \/ selections_end
    \/ assessments_end
    \/ restore_commit
    \/ restore_log

SpecRestore == InitRestore /\ [][NextRestore]_vars

(* ----------------------- api/users.py: delete_user --------------------- *)
\* user_id == admin.id: user_id is the uuid.UUID FastAPI parsed from the
\* path, admin.id is the str of the String(36) column.  uuid.UUID.__eq__
\* answers NotImplemented for an operand that is no UUID and str.__eq__ for
\* one that is no str, so == is False also when the str spells the UUID.
UUIDEqualsStr(user_id, id) == FALSE

\* DELETE /api/users/{user_id}: what the handler answers.  A creator of an
\* assessment cannot be deleted: assessments.created_by has no ON DELETE.
DeleteStatus(caller, user_id) ==
    IF require_role(caller, {"admin"}) # 200
    THEN require_role(caller, {"admin"})
    ELSE IF UUIDEqualsStr(user_id, caller) THEN 400
    ELSE IF user_id \notin DOMAIN users THEN 404
    ELSE IF \E a \in assessments : a.created_by = user_id THEN 500
    ELSE 200

\* db.delete(user) and the commit: the row goes, its refresh_tokens go with
\* it (cascade="all, delete-orphan", ON DELETE CASCADE), patients.created_by
\* is SET NULL.
delete_user(r, serial, caller, user_id) ==
    /\ Accept(r, serial)
    /\ LET status == DeleteStatus(caller, user_id) IN
       /\ req' = [req EXCEPT ![r] = [Idle EXCEPT !.op = "delete_user",
                                                 !.pc = "done",
                                                 !.user = caller,
                                                 !.target = user_id,
                                                 !.status = status]]
       /\ users' = IF status = 200
                   THEN [ u \in DOMAIN users \ {user_id} |-> users[u] ]
                   ELSE users
       /\ refresh_tokens' =
             IF status = 200
             THEN { rt \in refresh_tokens : rt.user_id # user_id }
             ELSE refresh_tokens
       /\ patients' =
             IF status = 200
             THEN { IF row.created_by = user_id
                    THEN [row EXCEPT !.created_by = Null] ELSE row :
                    row \in patients }
             ELSE patients
    /\ UNCHANGED <<audit_logs, now, uuid_counter, nticks, redeemed,
                   assessments, selections, rq, autoflush, bk, mig, portal, held,
                   enc>>

\* Accounts are deleted between logins and refreshes, served one at a time.
NextUsers ==
    \/ \E r \in Slots, n \in {"admin", "bob"}, p \in {"admin1234", "abcdef"} :
         login_start(r, TRUE, n, p)
    \/ \E r \in Slots, t \in 1 .. MaxRequests : refresh_start(r, TRUE, t)
    \/ \E r \in Slots, caller \in Callers, user_id \in UserIds \cup {"u9"} :
         delete_user(r, TRUE, caller, user_id)
    \/ \E r \in Slots :
         \/ authenticate_user(r)
         \/ login_stamp(r)
         \/ create_refresh_token(r)
         \/ log_action(r)
         \/ validate_select(r)
         \/ validate_revoke(r)
         \/ validate_fetch_user(r)
         \/ Deliver(r)

SpecUsers == Init /\ [][NextUsers]_vars

\* A store in which bob logged in earlier and still holds the refresh value
\* of that login; an admin may have deactivated the account since
\* (update_user leaves the session rows alone).
InitDormant ==
    /\ \E active \in BOOLEAN :
          users = [SeededUsers EXCEPT !["u2"].is_active = active,
                                      !["u2"].last_login_at = {0}]
    /\ now = 0
    /\ refresh_tokens = {NewSession("u2", 1)}
    /\ uuid_counter = 1
    /\ audit_logs = <<AuditEntry("u2", "login", "auth", <<>>)>>
    /\ req = [ r \in Slots |-> Idle ]
    /\ nreq = 0
    /\ nticks = 0
    /\ redeemed = EmptyBag
    /\ pre = [ users |-> <<>>, refresh_tokens |-> {}, audit_logs |-> <<>>,
               now |-> 0, patients |-> {}, assessments |-> {},
               selections |-> {} ]
    /\ rq = RestoreIdle
    /\ held = {create_access_token("u2")}
    /\ patients = {} /\ assessments = {} /\ selections = {}
    /\ autoflush = TRUE
    /\ bk = NoBackup
    /\ mig = NoMigration
    /\ portal = NoPortal
    /\ enc = EncLoaded

\* Refreshes run while an admin deactivates, reactivates or deletes
\* accounts, interleaved at every awaited read and commit.
NextDormant ==
    \/ \E r \in Slots, t \in 1 .. MaxRequests : refresh_start(r, FALSE, t)
    \/ \E a \in UserIds, u \in UserIds, b \in BOOLEAN :
         update_user(FALSE, a, u, b)
    \/ \E r \in Slots, caller \in UserIds, user_id \in UserIds :
         delete_user(r, FALSE, caller, user_id)
    \/ \E r \in Slots :
         \/ validate_select(r)
         \/ validate_revoke(r)
         \/ validate_fetch_user(r)
         \/ create_refresh_token(r)
         \/ Deliver(r)

SpecDormant == InitDormant /\ [][NextDormant]_vars

(* --------------------- api/deps.py: role dependencies ------------------- *)
ROLE_HIERARCHY ==
    [ role \in {"admin", "doctor", "therapist", "nurse"} |->
        CASE role = "admin" -> 4 [] role = "doctor" -> 3
          [] role = "therapist" -> 2 [] OTHER -> 1 ]

\* ROLE_HIERARCHY.get(role, 0).
RoleLevel(role) ==
    IF role \in DOMAIN ROLE_HIERARCHY THEN ROLE_HIERARCHY[role] ELSE 0

\* The _check of require_role and of require_min_role for a role.
RoleAllowed(role, guard) ==
    IF guard.min_role = ""
    THEN role \in guard.roles
    ELSE ~(RoleLevel(role) < RoleLevel(guard.min_role))

\* The dependencies endpoints declare: require_role("admin") and
\* require_min_role("doctor").
Guards ==
    { [ roles |-> {"admin"}, min_role |-> "" ],
      [ roles |-> {}, min_role |-> "doctor" ] }

\* Mutant of Authorized: the role claim of the bearer token decides.
Authorized_claimed(r) == RoleAllowed(req[r].bearer.role, req[r].guard)

\* user.role of the row get_current_user loaded decides.
Authorized(r) == RoleAllowed(users[req[r].user].role, req[r].guard)

\* A request to an endpoint behind a role dependency, with a bearer token
\* an answer carried.
guarded_start(r, serial, token, guard) ==
    /\ Accept(r, serial)
    /\ token \in held
    /\ req' = [req EXCEPT ![r] = [Idle EXCEPT !.op = "guarded",
                                              !.pc = "decode",
                                              !.bearer = token,
                                              !.guard = guard]]
    /\ UNCHANGED <<backupVars, held, enc, users, refresh_tokens, audit_logs,
                   now, uuid_counter, nticks, redeemed>>

\* _check: 403 when the role of the loaded row does not pass, else the
\* handler runs.
role_check(r) ==
    /\ req[r].pc = "role"
    /\ Respond(r, IF Authorized(r) THEN 200 ELSE 403)
    /\ UNCHANGED <<backupVars, held, enc, users, refresh_tokens, audit_logs,
                   now, uuid_counter, nreq, nticks, redeemed, pre>>

\* update_user by an active admin, body {role}.
update_user_role(serial, admin, user_id, role) ==
    /\ nreq < MaxRequests
    /\ serial => \A q \in Slots : req[q].op = "idle"
    /\ admin \in DOMAIN users
    /\ users[admin].is_active /\ users[admin].role = "admin"
    /\ user_id \in DOMAIN users
    /\ role \in {"admin", "doctor", "therapist", "nurse"}
    /\ users[user_id].role # role
    /\ users' = [users EXCEPT ![user_id].role = role]
    /\ nreq' = nreq + 1
    /\ pre' = IF serial THEN Snapshot ELSE pre
    /\ UNCHANGED <<backupVars, held, enc, refresh_tokens, audit_logs, now,
                   uuid_counter, req, nticks, redeemed>>

\* A store in which both accounts logged in a moment ago and hold the
\* access tokens of those logins.
InitRoles ==
    /\ users = [ u \in UserIds |->
                   [SeededUsers[u] EXCEPT !.last_login_at = {0}] ]
    /\ now = 0
    /\ refresh_tokens = { NewSession("u1", 1), NewSession("u2", 2) }
    /\ uuid_counter = 2
    /\ audit_logs = << AuditEntry("u1", "login", "auth", <<>>),
                       AuditEntry("u2", "login", "auth", <<>>) >>
    /\ req = [ r \in Slots |-> Idle ]
    /\ nreq = 0
    /\ nticks = 0
    /\ redeemed = EmptyBag
    /\ pre = [ users |-> <<>>, refresh_tokens |-> {}, audit_logs |-> <<>>,
               now |-> 0, patients |-> {}, assessments |-> {},
               selections |-> {} ]
    /\ rq = RestoreIdle
    /\ held = { create_access_token(u) : u \in UserIds }
    /\ patients = {} /\ assessments = {} /\ selections = {}
    /\ autoflush = TRUE
    /\ bk = NoBackup
    /\ mig = NoMigration
    /\ portal = NoPortal
    /\ enc = EncLoaded

\* Requests behind a role dependency, served one at a time, between the
\* admin's changes of accounts.
NextRoles ==
    \/ \E r \in Slots, token \in held, guard \in Guards :
         guarded_start(r, TRUE, token, guard)
    \/ \E a \in UserIds, u \in UserIds, b \in BOOLEAN :
         update_user(TRUE, a, u, b)
    \/ \E a \in UserIds, u \in UserIds, role \in {"admin", "doctor", "nurse"} :
         update_user_role(TRUE, a, u, role)
    \/ \E r \in Slots, caller \in UserIds, user_id \in UserIds :
         delete_user(r, TRUE, caller, user_id)
    \/ \E r \in Slots :
         \/ bearer_decode(r)
         \/ get_current_user(r)
         \/ role_check(r)
         \/ Deliver(r)
    \/ \E d \in TickSteps : Tick(d)

SpecRoles == InitRoles /\ [][NextRoles]_vars

(* ------------------ api/backup.py: export and read back ----------------- *)
\* str(p.created_by): "None" for a NULL column.
Str(value) == IF value = Null THEN "None" ELSE value

\* The rows of a relationship or a result, as a list.
RECURSIVE Listed(_)
Listed(rows) ==
    IF rows = {} THEN <<>>
    ELSE LET row == CHOOSE r \in rows : TRUE
         IN  <<row>> \o Listed(rows \ {row})

\* The object create_backup writes for a selection.
ExportSelection(row) ==
    [ dict |-> TRUE, id |-> Str(row.id), mesh_id |-> row.mesh_id,
      severity |-> row.severity ]

\* The object create_backup writes for an assessment: created_at is
\* written, and restore_backup never reads it.
ExportAssessment(row) ==
    [ entry |-> [ dict |-> TRUE, id |-> Str(row.id),
                  created_by |-> Str(row.created_by) ],
      created_at |-> row.created_at,
      selections_list |->
          Listed({ ExportSelection(c) :
                     c \in { x \in selections : x.assessment_id = row.id } }) ]

\* Mutants of ExportField: the column is decrypted, or encrypted again,
\* on its way into the document.
ExportField_decrypted(value) == decrypt(value)
ExportField_encrypted(value) == encrypt(value)

\* "phone": p.phone and the like: the column as the row holds it.
ExportField(value) == value

\* The object create_backup writes for a patient.
ExportPatient(row) ==
    [ entry |-> [ dict |-> TRUE, id |-> Str(row.id), name |-> row.name,
                  phone |-> ExportField(row.phone),
                  created_by |-> Str(row.created_by) ],
      created_at |-> row.created_at,
      assessments_list |->
          Listed({ ExportAssessment(c) :
                     c \in { x \in assessments : x.patient_id = row.id } }) ]

\* backup_data of create_backup.
BackupDocument ==
    [ json |-> TRUE, type |-> "object", keys |-> {"version", "patients"},
      list |-> TRUE,
      patients_list |-> Listed({ ExportPatient(row) : row \in patients }) ]

\* Stores an export may meet: up to two patients, an assessment each, a
\* selection; rows inserted the day before, a patient whose creator's
\* account was deleted since (created_by SET NULL).
SourceStores ==
    { [ patients |-> ps, assessments |-> as, selections |-> ss ] :
        ps \in { { [PatientRow(i, "old", phone, c)
                        EXCEPT !.created_at = now - 1] : i \in is } :
                 is \in SUBSET PatientUUIDs, c \in {"u1", Null},
                 phone \in {NoneValue, Plain("010"), StoredPhone} },
        as \in SUBSET { [AssessmentRow("a1", "p1", "u2")
                            EXCEPT !.created_at = now - 1],
                        [AssessmentRow("a2", "p2", "u1")
                            EXCEPT !.created_at = now - 1] },
        ss \in SUBSET { SelectionRow("s1", "a1", "mesh", "severe") } }

\* A consistent one: every child row has its parent.
Consistent(store) ==
    /\ \A a \in store.assessments : a.patient_id \in Ids(store.patients)
    /\ \A c \in store.selections : c.assessment_id \in Ids(store.assessments)

InitRoundTrip ==
    /\ InitAuth
    /\ \E store \in SourceStores :
         /\ Consistent(store)
         /\ patients = store.patients
         /\ assessments = store.assessments
         /\ selections = store.selections
         /\ bk = [ stage |-> "source", artifact |-> NoArtifact,
                   operator |-> "", status |-> 0, source |-> store ]
    /\ autoflush \in BOOLEAN
    /\ enc = EncLoaded
    /\ mig = NoMigration
    /\ portal = NoPortal

\* POST /api/backup by an active admin: the document is encrypted as one
\* blob and a backup audit record is written.
create_backup(operator) ==
    /\ bk.stage = "source"
    /\ require_role(operator, {"admin"}) = 200
    /\ bk' = [bk EXCEPT !.stage = "exported", !.operator = operator,
                        !.status = 200,
                        !.artifact = encrypt_bytes(BackupDocument)]
    /\ audit_logs' = Append(audit_logs,
         AuditEntry(operator, "backup", "system",
                    <<"patient_count", Cardinality(patients)>>))
    /\ UNCHANGED <<users, refresh_tokens, now, uuid_counter, req, nreq,
                   nticks, redeemed, pre, patients, assessments, selections,
                   rq, autoflush, mig, portal, held, enc>>

\* POST /api/backup by a caller the dependency turns away.
create_backup_refused(caller) ==
    /\ bk.stage = "source"
    /\ require_role(caller, {"admin"}) # 200
    /\ bk' = [bk EXCEPT !.operator = caller,
                        !.status = require_role(caller, {"admin"})]
    /\ UNCHANGED <<users, refresh_tokens, audit_logs, now, uuid_counter, req,
                   nreq, nticks, redeemed, pre, patients, assessments,
                   selections, rq, autoflush, mig, portal, held, enc>>

\* A refused upload of the artifact.
readback_refused(caller) ==
    /\ bk.stage = "emptied"
    /\ restore_refused(caller)

\* The artifact is taken to an installation whose store holds no clinical
\* row.
EmptyStore ==
    /\ bk.stage = "exported"
    /\ patients' = {} /\ assessments' = {} /\ selections' = {}
    /\ bk' = [bk EXCEPT !.stage = "emptied"]
    /\ UNCHANGED <<users, refresh_tokens, audit_logs, now, uuid_counter, req,
                   nreq, nticks, redeemed, pre, rq, autoflush, mig, portal, held,
                   enc>>

\* The lists of the uploaded document the loops of restore_backup are in.
UploadedPatients == rq.upload.data.patients_list
UploadedAssessments == UploadedPatients[rq.i + 1].assessments_list
UploadedSelections == UploadedAssessments[rq.j].selections_list

\* restore_backup reading the artifact: each loop takes the next entry of
\* its list and ends when the list does.
readback_open(operator) ==
    /\ bk.stage = "emptied"
    /\ restore_open(operator, bk.artifact)

readback_patient ==
    /\ rq.pc = "patients"
    /\ rq.i < Len(UploadedPatients)
    /\ restore_patient(UploadedPatients[rq.i + 1].entry)

readback_assessment ==
    /\ rq.pc = "assessments"
    /\ rq.j < Len(UploadedAssessments)
    /\ restore_assessment(UploadedAssessments[rq.j + 1].entry)

readback_selection ==
    /\ rq.pc = "selections"
    /\ rq.k < Len(UploadedSelections)
    /\ restore_selection(UploadedSelections[rq.k + 1])

readback_selections_end ==
    /\ rq.pc = "selections"
    /\ rq.k = Len(UploadedSelections)
    /\ selections_end

readback_assessments_end ==
    /\ rq.pc = "assessments"
    /\ rq.j = Len(UploadedAssessments)
    /\ assessments_end

readback_commit ==
    /\ rq.pc = "patients"
    /\ rq.i = Len(UploadedPatients)
    /\ restore_commit

NextRoundTrip ==
    \/ \E o \in Callers : create_backup(o)
    \/ \E o \in Callers : create_backup_refused(o)
    \/ EmptyStore
    \/ \E o \in Callers : readback_open(o)
    \/ \E o \in Callers : readback_refused(o)
    \/ readback_patient
    \/ readback_assessment
    \/ readback_selection
    \/ readback_selections_end
    \/ readback_assessments_end
    \/ readback_commit
    \/ restore_log

SpecRoundTrip == InitRoundTrip /\ [][NextRoundTrip]_vars

(* ------------------- encryption_service.py in a process ---------------- *)
\* The process is started with some ENCRYPTION_KEY; _fernet is None.
InitCrypto ==
    /\ InitAuth
    /\ patients = {} /\ assessments = {} /\ selections = {}
    /\ autoflush = TRUE
    /\ bk = NoBackup
    /\ mig = NoMigration
    /\ portal = NoPortal
    /\ \E key \in ConfiguredKeys :
         enc = [ key |-> key, phase |-> "starting", fernet |-> FALSE,
                 fkey |-> "", inits |-> 0,
                 last |-> NoCall, prev |-> NoCall ]

\* main.lifespan up to its yield: the tables are created and the admin
\* account is seeded; nothing reads the key.
lifespan ==
    /\ enc.phase = "starting"
    /\ enc' = [enc EXCEPT !.phase = "serving"]
    /\ UNCHANGED <<users, refresh_tokens, audit_logs, now, uuid_counter, req,
                   nreq, nticks, redeemed, pre, backupVars, held>>

\* Values handlers pass to encrypt and decrypt: None, "", a text, the
\* sentinel, a token of another key, a token whose tag does not verify.
TextValues ==
    { NoneValue, Plain(""), Plain("text"), DecryptionFailed,
      FernetEncrypt(ForeignKey, Plain("text")),
      [ FernetEncrypt(EncryptionKey, Plain("text")) EXCEPT !.intact = FALSE ] }

\* Byte strings handlers pass to encrypt_bytes and decrypt_bytes.
ByteValues ==
    { Plain(""), Plain("jpeg"), FernetEncrypt(ForeignKey, Plain("jpeg")),
      [ FernetEncrypt(EncryptionKey, Plain("jpeg")) EXCEPT !.intact = FALSE ] }

\* Mutant of get_fernet: the Fernet is built on every call.
get_fernet_rebuilding(provider) ==
    IF KeyValid(provider.key)
    THEN [ fernet |-> TRUE, fkey |-> provider.key,
           inits |-> provider.inits + 1, raised |-> "" ]
    ELSE [ fernet |-> provider.fernet, fkey |-> provider.fkey,
           inits |-> provider.inits, raised |-> "ValueError" ]

\* get_fernet: the module global _fernet is returned when it is set;
\* otherwise the key is validated and _fernet = Fernet(key) is assigned, or
\* ValueError is raised with _fernet still None.  The function awaits
\* nothing, so no other request runs inside it.  fkey is the key the Fernet
\* holds, inits counts the assignments.
get_fernet(provider) ==
    IF provider.fernet
    THEN [ fernet |-> TRUE, fkey |-> provider.fkey,
           inits |-> provider.inits, raised |-> "" ]
    ELSE IF KeyValid(provider.key)
    THEN [ fernet |-> TRUE, fkey |-> provider.key,
           inits |-> provider.inits + 1, raised |-> "" ]
    ELSE [ fernet |-> FALSE, fkey |-> provider.fkey,
           inits |-> provider.inits, raised |-> "ValueError" ]

\* The provider after a call that reached get_fernet, or did not.
Provided(needs_fernet) ==
    IF needs_fernet
    THEN get_fernet(enc)
    ELSE [ fernet |-> enc.fernet, fkey |-> enc.fkey, inits |-> enc.inits,
           raised |-> "" ]

\* A call of the service with argument arg while requests are served: what
\* it returns or raises, get_fernet building _fernet on first use.
Call(name, arg) ==
    LET needs_fernet == name \in {"encrypt_bytes", "decrypt_bytes", "get_photo"}
                           \/ ~Falsy(arg)
        provided == Provided(needs_fernet)
        key_error == provided.raised # ""
        opened == decrypt_bytes(arg)
        outcome ==
            IF key_error
            THEN [ result |-> NoArtifact, raised |-> "ValueError" ]
            ELSE CASE name = "encrypt" ->
                        [ result |-> encrypt(arg), raised |-> "" ]
                   [] name = "decrypt" ->
                        [ result |-> decrypt(arg), raised |-> "" ]
                   [] name = "encrypt_bytes" ->
                        [ result |-> encrypt_bytes(arg), raised |-> "" ]
                   [] name \in {"decrypt_bytes", "get_photo"} ->
                        IF opened.ok
                        THEN [ result |-> opened.data, raised |-> "" ]
                        ELSE [ result |-> NoArtifact,
                               raised |-> "InvalidToken" ]
    IN  /\ enc.phase = "serving"
        /\ enc' = [enc EXCEPT
                     !.fernet = provided.fernet,
                     !.fkey = provided.fkey,
                     !.inits = provided.inits,
                     !.prev = enc.last,
                     !.last = [ call |-> name, arg |-> arg,
                                result |-> outcome.result,
                                raised |-> outcome.raised ]]
        /\ UNCHANGED <<users, refresh_tokens, audit_logs, now, uuid_counter,
                       req, nreq, nticks, redeemed, pre, backupVars, held>>

\* What the last call returned, if it returned.
Returns ==
    IF /\ enc.last.raised = ""
       /\ enc.last.call \in {"encrypt", "decrypt", "encrypt_bytes",
                              "decrypt_bytes"}
    THEN {enc.last.result} ELSE {}

\* What handlers encrypt: a value a client sent, or one just decrypted.
Decrypted == { value \in Returns : ~value.token }

call_encrypt ==
    \E value \in TextValues \cup Decrypted : Call("encrypt", value)
call_decrypt == \E value \in TextValues \cup Returns : Call("decrypt", value)
call_encrypt_bytes ==
    \E data \in ByteValues \cup Decrypted : Call("encrypt_bytes", data)
call_decrypt_bytes ==
    \E data \in ByteValues \cup Returns : Call("decrypt_bytes", data)

\* GET /api/patients/{id} on a stored row: _decrypt_patient_out decrypts
\* each encrypted column on its own; phone and notes stand for the five.
get_patient ==
    \E phone \in TextValues, notes \in TextValues :
        LET provided == Provided(~Falsy(phone) \/ ~Falsy(notes))
            key_error == provided.raised # ""
        IN  /\ enc.phase = "serving"
            /\ enc' = [enc EXCEPT
                  !.fernet = provided.fernet,
                  !.fkey = provided.fkey,
                  !.inits = provided.inits,
                  !.prev = enc.last,
                  !.last =
                     [ call |-> "get_patient",
                       arg |-> Plain(<<phone, notes>>),
                       result |->
                          IF key_error THEN NoArtifact
                          ELSE Plain(<<decrypt(phone), decrypt(notes)>>),
                       raised |-> IF key_error THEN "ValueError" ELSE "" ]]
            /\ UNCHANGED <<users, refresh_tokens, audit_logs, now,
                           uuid_counter, req, nreq, nticks, redeemed, pre,
                           backupVars, held>>

\* GET .../photo on a stored photo: decrypt_bytes(photo.data), unguarded.
get_photo == \E data \in ByteValues : Call("get_photo", data)

NextCrypto ==
    \/ lifespan
    \/ call_encrypt
    \/ call_decrypt
    \/ call_encrypt_bytes
    \/ call_decrypt_bytes
    \/ get_patient
    \/ get_photo

SpecCrypto == InitCrypto /\ [][NextCrypto]_vars

(* --------------------------- migrate_encrypt.py ------------------------- *)
\* FERNET_PREFIX: every Fernet token starts with these characters (the
\* version byte and the high bytes of the timestamp, in base64).
FERNET_PREFIX == "gAAAAA"

\* A plaintext that happens to start with the prefix.
MarkedText == "gAAAAA-text"

\* value.startswith(FERNET_PREFIX) / data[:6] == FERNET_BYTES_PREFIX.
StartsWithPrefix(value) == value.token \/ value.data = MarkedText

\* Mutant of is_already_encrypted: only None and "" are skipped.
is_already_encrypted_blind(value) == Falsy(value)

\* is_already_encrypted, is_already_encrypted_bytes: None and empty values
\* need no work; otherwise the prefix decides.
is_already_encrypted(value) ==
    IF Falsy(value) THEN TRUE ELSE StartsWithPrefix(value)

\* encrypt_str of the script, with the script's own Fernet of the same key.
encrypt_str(value) ==
    IF Falsy(value) THEN value ELSE FernetEncrypt(EncryptionKey, value)

\* Column values a store may hold before a migration.
LegacyTexts ==
    { NoneValue, Plain(""), Plain("text"), Plain(MarkedText),
      FernetEncrypt(EncryptionKey, Plain("text")),
      FernetEncrypt(ForeignKey, Plain("text")) }
LegacyPhotos ==
    { Plain(""), Plain("jpeg"), FernetEncrypt(EncryptionKey, Plain("jpeg")) }

InitMigrate ==
    /\ InitAuth
    /\ patients = {} /\ assessments = {} /\ selections = {}
    /\ autoflush = TRUE
    /\ bk = NoBackup
    /\ enc = EncLoaded
    /\ portal = NoPortal
    /\ \E phone \in LegacyTexts, notes \in LegacyTexts,
          overall_notes \in LegacyTexts, photo \in LegacyPhotos :
         LET columns == [ phone |-> phone, notes |-> notes,
                          overall_notes |-> overall_notes, photo |-> photo ]
         IN  mig = [ NoMigration EXCEPT !.initial = columns,
                                        !.start = columns,
                                        !.store = columns ]

MigrateFrame ==
    UNCHANGED <<users, refresh_tokens, audit_logs, now, uuid_counter, req,
                nreq, nticks, redeemed, pre, patients, assessments,
                selections, rq, autoflush, bk, portal, held, enc>>

\* Mutant of Executes: --dry-run is ignored.
Executes_always(dry_run) == TRUE

\* if dry_run: print(...) else: await db.execute(...): whether the run
\* executes its statements and commits.
Executes(dry_run) == ~dry_run

\* python migrate_encrypt.py [--dry-run]: the script starts and runs step
\* 1, the ALTER TABLE statements, each committed on its own.
migrate_start(dry_run) ==
    /\ mig.pc \in {"idle", "done"}
    /\ mig.runs < MaxRuns
    /\ mig' = [mig EXCEPT !.pc = "patients", !.dry_run = dry_run,
                          !.runs = @ + 1, !.settled = mig.migrated,
                          !.start = mig.store, !.reported = {},
                          !.ddl = Executes(dry_run),
                          !.committed = Executes(dry_run)]
    /\ MigrateFrame

\* The script is stopped after the commit of step 2 or of step 3: what was
\* committed stays, the later steps have not run.
migrate_interrupt ==
    /\ mig.pc \in {"assessments", "photos"}
    /\ ~mig.dry_run
    /\ mig' = [mig EXCEPT !.pc = "idle"]
    /\ MigrateFrame

\* Step 2: each encrypted column of a patient that is not recognised is
\* encrypted; one UPDATE per patient with such columns, then the commit.
migrate_patients ==
    /\ mig.pc = "patients"
    /\ LET values == [ field \in {"phone", "notes"} |-> mig.store[field] ]
           updates == { field \in DOMAIN values :
                           ~is_already_encrypted(values[field]) }
       IN  mig' = [mig EXCEPT
              !.pc = "assessments",
              !.reported = @ \cup updates,
              !.committed = @ \/ (Executes(mig.dry_run) /\ updates # {}),
              !.store = [ column \in DOMAIN mig.store |->
                            IF column \in updates /\ Executes(mig.dry_run)
                            THEN encrypt_str(mig.store[column])
                            ELSE mig.store[column] ]]
    /\ MigrateFrame

\* Step 3: assessments whose overall_notes is neither NULL nor '' and not
\* recognised.
migrate_assessments ==
    /\ mig.pc = "assessments"
    /\ LET overall_notes == mig.store.overall_notes
           selected == overall_notes # NoneValue /\ overall_notes # Plain("")
           update == selected /\ ~is_already_encrypted(overall_notes)
       IN  mig' = [mig EXCEPT
              !.pc = "photos",
              !.reported = IF update THEN @ \cup {"overall_notes"} ELSE @,
              !.committed = @ \/ (Executes(mig.dry_run) /\ update),
              !.store.overall_notes =
                  IF update /\ Executes(mig.dry_run)
                  THEN encrypt_str(overall_notes)
                  ELSE @]
    /\ MigrateFrame

\* Step 4: photos whose data is not recognised; the script ends.
migrate_photos ==
    /\ mig.pc = "photos"
    /\ mig' = [mig EXCEPT
          !.pc = "done",
          !.migrated = @ \/ ~mig.dry_run,
          !.reported = IF ~is_already_encrypted(mig.store.photo)
                       THEN @ \cup {"photo"} ELSE @,
          !.committed = @ \/ (/\ Executes(mig.dry_run)
                              /\ ~is_already_encrypted(mig.store.photo)),
          !.store.photo =
              IF ~is_already_encrypted(mig.store.photo)
                 /\ Executes(mig.dry_run)
              THEN encrypt_bytes(mig.store.photo)
              ELSE @]
    /\ MigrateFrame

NextMigrate ==
    \/ \E dry_run \in BOOLEAN : migrate_start(dry_run)
    \/ migrate_patients
    \/ migrate_assessments
    \/ migrate_photos
    \/ migrate_interrupt

SpecMigrate == InitMigrate /\ [][NextMigrate]_vars

(* --------------------------- api/portal_auth.py ------------------------- *)
\* The invite codes of the store, and what clients send: a code as issued,
\* the same code in lower case, a code nobody issued.
InviteCodes == {"ABC234", "XYZ789"}
SentCodes == {"ABC234", "abc234", "XYZ789", "QQQ999"}
PortalUsernames == {"kim", "lee"}
\* The ids uuid4 gives to the accounts registrations create.
PortalUserIds == {"u3", "u4"}

\* body.invite_code.upper().
Upper(code) == IF code = "abc234" THEN "ABC234" ELSE code

\* Invites expire 72 hours after create_invite.
InviteExpireDays == 3

\* The SELECT of validate_invite_code and register_with_invite: the
\* invites with this code that are unused and not expired.
OpenInvites(code) ==
    { invite \in portal.invites :
        /\ invite.invite_code = Upper(code)
        /\ invite.used_at = Never
        /\ invite.expires_at > now }

\* A code was consumed by a registration before now.
Consumed(code) ==
    \E invite \in portal.invites :
        invite.invite_code = Upper(code) /\ invite.used_at # Never

PortalIdle == NoPortal.pr["r1"]

\* A store with one patient and two invites for that patient, both issued
\* by create_invite a moment ago.
InitPortal ==
    /\ InitAuth
    /\ patients = {PatientRow("p1", "new", StoredPhone, "u2")}
    /\ assessments = {} /\ selections = {}
    /\ autoflush = TRUE
    /\ bk = NoBackup
    /\ mig = NoMigration
    /\ enc = EncLoaded
    /\ portal = [ NoPortal EXCEPT !.invites =
           { [ invite_code |-> code, patient_id |-> "p1",
               expires_at |-> InviteExpireDays, used_at |-> Never,
               used_by |-> Null ] : code \in InviteCodes } ]

PortalFrame ==
    UNCHANGED <<audit_logs, now, req, nreq, nticks, redeemed, pre, patients,
                assessments, selections, rq, autoflush, bk, mig, held, enc>>

\* A portal request is accepted into slot r.
PortalAccept(r, serial) ==
    /\ portal.pr[r].op = "idle"
    /\ portal.n < MaxRequests
    /\ serial => \A q \in Slots : portal.pr[q].op = "idle"

\* validate_invite_code: valid when the SELECT finds an invite.
validate_invite_code(r, serial, code) ==
    /\ PortalAccept(r, serial)
    /\ portal' = [portal EXCEPT
          !.n = @ + 1,
          !.pr[r] = [PortalIdle EXCEPT
                       !.op = "validate", !.pc = "done", !.code = code,
                       !.late = Consumed(code), !.status = 200,
                       !.valid = (OpenInvites(code) # {})]]
    /\ UNCHANGED <<users, refresh_tokens, uuid_counter>>
    /\ PortalFrame

\* register_with_invite arrives.
register_start(r, serial, code, username) ==
    /\ PortalAccept(r, serial)
    /\ portal' = [portal EXCEPT
          !.n = @ + 1,
          !.pr[r] = [PortalIdle EXCEPT
                       !.op = "register", !.pc = "invite", !.code = code,
                       !.username = username, !.late = Consumed(code)]]
    /\ UNCHANGED <<users, refresh_tokens, uuid_counter>>
    /\ PortalFrame

\* The SELECT of the invite: 400 when there is none.
register_select_invite(r) ==
    /\ portal.pr[r].pc = "invite"
    /\ portal' =
         IF OpenInvites(portal.pr[r].code) = {}
         THEN [portal EXCEPT !.pr[r].pc = "done", !.pr[r].status = 400]
         ELSE [portal EXCEPT !.pr[r].pc = "username",
                             !.pr[r].invite = Upper(portal.pr[r].code)]
    /\ UNCHANGED <<users, refresh_tokens, uuid_counter>>
    /\ PortalFrame

\* The SELECT of an account with the username: 409 when there is one.
register_check_username(r) ==
    /\ portal.pr[r].pc = "username"
    /\ portal' =
         IF \E u \in DOMAIN users :
               users[u].username = portal.pr[r].username
         THEN [portal EXCEPT !.pr[r].pc = "done", !.pr[r].status = 409]
         ELSE [portal EXCEPT !.pr[r].pc = "link"]
    /\ UNCHANGED <<users, refresh_tokens, uuid_counter>>
    /\ PortalFrame

\* The patient of an invite code.
InvitePatient(code) ==
    (CHOOSE invite \in portal.invites : invite.invite_code = code).patient_id

\* The SELECT of a link of the invite's patient: 409 when there is one.
LinkedAlready(patient_id) ==
    \E link \in portal.links : link.patient_id = patient_id

register_check_link(r) ==
    /\ portal.pr[r].pc = "link"
    /\ portal' =
         IF LinkedAlready(InvitePatient(portal.pr[r].invite))
         THEN [portal EXCEPT !.pr[r].pc = "done", !.pr[r].status = 409]
         ELSE [portal EXCEPT !.pr[r].pc = "commit"]
    /\ UNCHANGED <<users, refresh_tokens, uuid_counter>>
    /\ PortalFrame

\* The account, its link and the used_at and used_by of the invite are
\* written and committed together.  users.username is unique: the flush
\* raises when another request took the name meanwhile.  patient_links has
\* no unique constraint on patient_id.
register_commit(r) ==
    /\ portal.pr[r].pc = "commit"
    /\ LET this == portal.pr[r]
           taken == \E u \in DOMAIN users : users[u].username = this.username
           id == CHOOSE u \in PortalUserIds : u \notin DOMAIN users
       IN  IF taken
           THEN /\ portal' = [portal EXCEPT !.pr[r].pc = "done",
                                             !.pr[r].status = 500]
                /\ UNCHANGED users
           ELSE /\ users' = [ u \in DOMAIN users \cup {id} |->
                               IF u = id
                               THEN [ username |-> this.username,
                                      password_hash |->
                                          hash_password("abcdef"),
                                      role |-> "patient",
                                      is_active |-> TRUE,
                                      last_login_at |-> Never ]
                               ELSE users[u] ]
                /\ portal' = [portal EXCEPT
                      !.pr[r].pc = "issue", !.pr[r].user = id,
                      !.links = @ \cup
                          {[ user_id |-> id,
                             patient_id |-> InvitePatient(this.invite) ]},
                      !.invites =
                          { IF invite.invite_code = this.invite
                            THEN [invite EXCEPT !.used_at = {now},
                                                !.used_by = id]
                            ELSE invite : invite \in @ }]
    /\ UNCHANGED <<refresh_tokens, uuid_counter>>
    /\ PortalFrame

\* create_access_token and create_refresh_token, then the 200 answer.
register_issue(r) ==
    /\ portal.pr[r].pc = "issue"
    /\ uuid_counter' = uuid_counter + 1
    /\ refresh_tokens' =
         refresh_tokens \cup {NewSession(portal.pr[r].user, uuid_counter')}
    /\ portal' = [portal EXCEPT
          !.pr[r].pc = "done", !.pr[r].status = 200,
          !.registered = @ \cup {[ code |-> portal.pr[r].invite,
                                    user_id |-> portal.pr[r].user ]}]
    /\ UNCHANGED users
    /\ PortalFrame

\* The answer is delivered and the slot is free again.
portal_deliver(r) ==
    /\ portal.pr[r].pc = "done"
    /\ portal' = [portal EXCEPT !.pr[r] = PortalIdle]
    /\ UNCHANGED <<users, refresh_tokens, uuid_counter>>
    /\ PortalFrame

PortalStep(r) ==
    \/ register_select_invite(r)
    \/ register_check_username(r)
    \/ register_check_link(r)
    \/ register_commit(r)
    \/ register_issue(r)
    \/ portal_deliver(r)

\* Portal requests interleave at every awaited read and commit.
NextPortal ==
    \/ \E r \in Slots, code \in SentCodes :
         validate_invite_code(r, FALSE, code)
    \/ \E r \in Slots, code \in SentCodes, username \in PortalUsernames :
         register_start(r, FALSE, code, username)
    \/ \E r \in Slots : PortalStep(r)
    \/ \E d \in TickSteps : Tick(d)

SpecPortal == InitPortal /\ [][NextPortal]_vars

\* Portal requests served one at a time.
NextPortalSeq ==
    \/ \E r \in Slots, code \in SentCodes :
         validate_invite_code(r, TRUE, code)
    \/ \E r \in Slots, code \in SentCodes, username \in PortalUsernames :
         register_start(r, TRUE, code, username)
    \/ \E r \in Slots : PortalStep(r)
    \/ \E d \in TickSteps : Tick(d)

SpecPortalSeq == InitPortal /\ [][NextPortalSeq]_vars

(* ======================= session lifecycle claims ====================== *)
\* A request in slot r of kind op has been answered with status.
Answered(r, op, status) ==
    req[r].op = op /\ req[r].pc = "done" /\ req[r].status = status

\* The rows of a set of session rows that belong to an account.
SessionsOf(rows, user_id) == { rt \in rows : rt.user_id = user_id }

\* Whether a session row could be redeemed at instant t.
Live(rt, t) == rt.revoked = FALSE /\ rt.expires_at > t

\* C1: of the refresh requests presenting one refresh token value, at most
\* one is answered with a new pair, also when they run concurrently.
C1_SingleRedemption ==
    \A v \in BagToSet(redeemed) : CopiesIn(v, redeemed) <= 1

C3_InvalidRefreshRejected ==
    \A r \in Slots :
        /\ req[r].op = "refresh" /\ req[r].pc = "done"
        /\ ~ \E rt \in pre.refresh_tokens :
               /\ rt.token_hash = hash_token(req[r].token)
               /\ rt.revoked = FALSE
               /\ rt.expires_at > pre.now
        => /\ req[r].status = 401
           /\ req[r].refresh = 0
           /\ refresh_tokens = pre.refresh_tokens

\* C3 witness: a non-revoked row that expires exactly now is refused.
C3_Witness ==
    \E r \in Slots :
        /\ Answered(r, "refresh", 401)
        /\ \E rt \in pre.refresh_tokens :
             /\ rt.token_hash = hash_token(req[r].token)
             /\ rt.revoked = FALSE
             /\ rt.expires_at = pre.now

\* C4: a refresh answered 200 revoked exactly the presented row, added
\* exactly one row, non-revoked and of the same account, for the value it
\* returned, and changed no other session row.
C4_RefreshFrame ==
    \A r \in Slots :
        Answered(r, "refresh", 200) =>
            \E old \in pre.refresh_tokens :
                /\ old.token_hash = hash_token(req[r].token)
                /\ old.revoked = FALSE
                /\ \E new \in refresh_tokens :
                     /\ new.id \notin { rt.id : rt \in pre.refresh_tokens }
                     /\ new.user_id = old.user_id
                     /\ new.revoked = FALSE
                     /\ new.token_hash = hash_token(req[r].refresh)
                     /\ refresh_tokens =
                          ((pre.refresh_tokens \ {old})
                             \cup {[old EXCEPT !.revoked = TRUE]})
                          \cup {new}

\* C4 witness: a refresh succeeded while the same account and another
\* account each held a further live session.
C4_Witness ==
    \E r \in Slots :
        /\ Answered(r, "refresh", 200)
        /\ \E rt \in pre.refresh_tokens :
             /\ rt.user_id # req[r].user
             /\ Live(rt, now)

\* C5: once logout is answered, every session row of the caller that
\* existed when it started is revoked and its value cannot be redeemed, and
\* the rows of every other account are as they were.
C5_LogoutRevokesAll ==
    \A r \in Slots :
        Answered(r, "logout", 200) =>
            /\ \A old \in SessionsOf(pre.refresh_tokens, req[r].user) :
                 /\ [old EXCEPT !.revoked = TRUE] \in refresh_tokens
                 /\ \A v \in 0 .. uuid_counter :
                      old.token_hash = hash_token(v) => ValidSessions(v) = {}
            /\ \A u \in UserIds \ {req[r].user} :
                 SessionsOf(refresh_tokens, u) =
                    SessionsOf(pre.refresh_tokens, u)

\* C5 witness: the caller held a live session, and so did another account.
C5_Witness ==
    \E r \in Slots :
        /\ Answered(r, "logout", 200)
        /\ \E rt \in SessionsOf(pre.refresh_tokens, req[r].user) :
             Live(rt, pre.now)
        /\ \E rt \in pre.refresh_tokens :
             rt.user_id # req[r].user /\ Live(rt, now)

\* C6: change-password is answered 200 only for a current password that
\* verifies and a new one of at least 6 characters; a refused request
\* leaves the accounts and the sessions as they were; after a 200 only the
\* new password verifies and every session row of the account is revoked.
C6_ChangePassword ==
    \A r \in Slots :
        req[r].op = "password" /\ req[r].pc = "done" =>
            LET u == req[r].user
                allowed ==
                    /\ pre.users[u].password_hash =
                         hash_password(req[r].password)
                    /\ Len(req[r].new_password) >= 6
            IN  /\ req[r].status = 200 => allowed
                /\ req[r].status = 400 <=> (pre.users[u].is_active /\ ~allowed)
                /\ req[r].status # 200 =>
                     /\ users = pre.users
                     /\ refresh_tokens = pre.refresh_tokens
                /\ req[r].status = 200 =>
                     /\ \A p \in Passwords :
                          verify_password(p, users[u].password_hash)
                             <=> p = req[r].new_password
                     /\ \A rt \in SessionsOf(refresh_tokens, u) : rt.revoked
                     /\ \A o \in UserIds \ {u} : users[o] = pre.users[o]

\* C6 witness: an account holding a live session changed its password to a
\* different one.
C6_Witness ==
    \E r \in Slots :
        /\ Answered(r, "password", 200)
        /\ req[r].new_password # req[r].password
        /\ \E rt \in SessionsOf(pre.refresh_tokens, req[r].user) :
             Live(rt, pre.now)

(* ============================ restore claims ============================ *)
\* The store as restore sees it.
Stored == [ patients |-> patients, assessments |-> assessments,
            selections |-> selections ]
StoredBefore == [ patients |-> pre.patients, assessments |-> pre.assessments,
                  selections |-> pre.selections ]

\* The entry the loops read last is one they do not skip as malformed.
EntryRead ==
    CASE rq.entry.level = "patient" -> PatientWellFormed(rq.entry.e)
      [] rq.entry.level = "assessment" -> AssessmentWellFormed(rq.entry.e)
      [] rq.entry.level = "selection" -> SelectionWellFormed(rq.entry.e)
      [] OTHER -> FALSE

\* C7 as the specification states it: when a patient, assessment or
\* selection entry that restore reads carries an id that is no valid UUID,
\* the restore ends with the validation error (400) and the store holds
\* exactly the rows it held before the run, the valid patients read earlier
\* in the run not among them.  The code answers 500 for an id of JSON null.
C7_InvalidIdRejected ==
    (EntryRead /\ UUIDParse(rq.entry.e.id) \in UUIDErrors)
        => /\ rq.pc = "done"
           /\ rq.status = 400
           /\ Stored = StoredBefore

\* C8: restore never modifies or deletes a row that existed before it ran:
\* every earlier row is still stored unchanged, no inserted row takes the id
\* of an earlier one, and no assessment or selection is inserted under a
\* patient or an assessment that existed before.
C8_ExistingRowsUntouched ==
    rq.pc # "idle" =>
        /\ pre.patients \subseteq patients
        /\ pre.assessments \subseteq assessments
        /\ pre.selections \subseteq selections
        /\ \A row \in patients \ pre.patients : row.id \notin Ids(pre.patients)
        /\ \A row \in assessments \ pre.assessments :
              /\ row.id \notin Ids(pre.assessments)
              /\ row.patient_id \notin Ids(pre.patients)
        /\ \A row \in selections \ pre.selections :
              /\ row.id \notin Ids(pre.selections)
              /\ row.assessment_id \notin Ids(pre.assessments)

\* C8 witness: a restore that met a patient already stored (with its
\* assessment and selection) and inserted another patient with an
\* assessment has answered 200.
C8_Witness ==
    /\ rq.pc = "done" /\ rq.status = 200
    /\ rq.existing >= 1
    /\ pre.assessments # {} /\ pre.selections # {}
    /\ patients # pre.patients
    /\ assessments # pre.assessments

\* C9 as the specification states it: the patients skipped because their
\* id is stored already are counted, apart from the inserted ones.  The
\* code counts them nowhere: skipped_count counts the malformed entries
\* only.
C9_ExistingCounted ==
    rq.pc = "done" => rq.skipped_count >= rq.existing

\* C9, amended: the restored count that restore reports and records in its
\* audit record is the number of patients inserted in the run; a patient
\* skipped because its id is stored already is not in that count, and no
\* counter counts it (skipped_count is the number of malformed entries).
C9_RestoredCount ==
    (rq.pc = "done" /\ rq.status = 200) =>
        /\ rq.restored_patients = Cardinality(patients \ pre.patients)
        /\ Len(audit_logs) = Len(pre.audit_logs) + 1
        /\ audit_logs[Len(audit_logs)].action = "restore"
        /\ audit_logs[Len(audit_logs)].details =
              <<"restored_patients", Cardinality(patients \ pre.patients)>>
        /\ rq.skipped_count = rq.malformed

\* C9 witness: a backup of two patients restored into a store that holds
\* one of the ids reports 1 restored.
C9_Witness ==
    /\ rq.pc = "done" /\ rq.status = 200
    /\ rq.i = 2 /\ rq.existing = 1 /\ rq.malformed = 0
    /\ rq.restored_patients = 1

\* The upload fails authenticated decryption, is no parseable document,
\* lacks the version or the patients key, or its patients value is no list.
BadEnvelope(blob) ==
    \/ ~blob.token \/ blob.key # EncryptionKey \/ ~blob.intact
    \/ ~blob.data.json
    \/ ~ ({"version", "patients"} \subseteq blob.data.keys)
    \/ ~blob.data.list

\* C10 as the specification states it: a restore of a blob that fails
\* decryption, does not parse, lacks the version or patients key, or whose
\* patients value is no list is answered 400, inserts no row and writes no
\* audit record.  The code answers 500 for a document that is JSON null.
C10_BadEnvelopeRejected ==
    (rq.pc # "idle" /\ BadEnvelope(rq.upload)) =>
        /\ rq.pc = "done"
        /\ rq.status = 400
        /\ Stored = StoredBefore
        /\ audit_logs = pre.audit_logs


(* =========================== round-trip claims ========================== *)
\* C11 as the specification states it: exporting a store and restoring the
\* artifact into an empty store ends with 200 and reproduces the same rows:
\* the same ids, the same nesting and the same value in every column.  The
\* code writes created_at into the document and never reads it back, and
\* writes a NULL created_by as "None", which restore replaces by the
\* operator's id.
C11_RoundTrip ==
    (bk.stage = "emptied" /\ rq.pc = "done")
        => /\ rq.status = 200
           /\ Stored = bk.source


(* ============================= login claims ============================= *)
\* The credentials of login request r name an account that existed when the
\* request started, was active, and whose hash the password matches.
ValidCredentials(r) ==
    \E u \in DOMAIN pre.users :
        /\ pre.users[u].username = req[r].username
        /\ pre.users[u].is_active
        /\ verify_password(req[r].password, pre.users[u].password_hash)

\* Why the credentials of login request r are refused.
RefusalReason(r) ==
    LET named == { u \in DOMAIN pre.users :
                     pre.users[u].username = req[r].username }
    IN  IF named = {} THEN "unknown"
        ELSE IF \E u \in named : ~pre.users[u].is_active THEN "inactive"
        ELSE "password"

LoginAnswered(r) == req[r].op = "login" /\ req[r].pc = "done"

\* C12: login answers with a token pair if and only if an account of the
\* given username exists, is active and the password matches its stored
\* hash; every other login is answered 401 "Invalid credentials".
C12_LoginIffValid ==
    \A r \in Slots : LoginAnswered(r) =>
        /\ req[r].status = 200 <=> ValidCredentials(r)
        /\ req[r].status = 200 => req[r].refresh # 0
        /\ req[r].status # 200 =>
              /\ req[r].status = 401
              /\ req[r].detail = "Invalid credentials"
              /\ req[r].refresh = 0

\* C12 witness: a login with valid credentials has been answered 200 with a
\* refresh value.
C12_Witness ==
    \E r \in Slots :
        /\ LoginAnswered(r) /\ req[r].status = 200
        /\ ValidCredentials(r) /\ req[r].refresh # 0

\* C13: whatever the reason a login is refused for (unknown username,
\* inactive account, wrong password), the answer is the same status and
\* detail and the store is the one the request found, so the answer does
\* not tell the reason.
C13_RefusalsAlike ==
    \A r \in Slots :
        (LoginAnswered(r) /\ ~ValidCredentials(r)) =>
            /\ <<req[r].status, req[r].detail>> = <<401, "Invalid credentials">>
            /\ <<users, refresh_tokens, audit_logs>> =
                  <<pre.users, pre.refresh_tokens, pre.audit_logs>>

\* C13 witness: a login naming an inactive account with its right password
\* has been refused.
C13_Witness ==
    \E r \in Slots :
        /\ LoginAnswered(r) /\ req[r].status = 401
        /\ RefusalReason(r) = "inactive"
        /\ \E u \in DOMAIN pre.users :
              /\ pre.users[u].username = req[r].username
              /\ verify_password(req[r].password, pre.users[u].password_hash)

\* C14: a failed login changes nothing: no session record is created, no
\* refresh value is issued, no account's last-login time changes and no
\* audit record is appended.
C14_FailedLoginFrame ==
    \A r \in Slots :
        (LoginAnswered(r) /\ ~ValidCredentials(r)) =>
            /\ refresh_tokens = pre.refresh_tokens
            /\ req[r].refresh = 0
            /\ \A u \in DOMAIN users :
                  users[u].last_login_at = pre.users[u].last_login_at
            /\ audit_logs = pre.audit_logs

\* C14 witness: a login with a wrong password for an account that has
\* logged in before has been refused.
C14_Witness ==
    \E r \in Slots :
        /\ LoginAnswered(r) /\ req[r].status = 401
        /\ RefusalReason(r) = "password"
        /\ pre.refresh_tokens # {}
        /\ pre.audit_logs # <<>>

\* C15: a successful login sets the account's last-login time and adds
\* exactly one session record for it, not revoked and expiring
\* REFRESH_TOKEN_EXPIRE_DAYS after it was made; every session record that
\* existed before is unchanged and no other account is touched.
C15_LoginFrame ==
    \A r \in Slots :
        (LoginAnswered(r) /\ req[r].status = 200) =>
            LET u == req[r].user
                added == refresh_tokens \ pre.refresh_tokens
            IN  /\ pre.refresh_tokens \subseteq refresh_tokens
                /\ Cardinality(added) = 1
                /\ \A rt \in added :
                      /\ rt.user_id = u
                      /\ rt.revoked = FALSE
                      /\ rt.token_hash = hash_token(req[r].refresh)
                      /\ rt.expires_at - REFRESH_TOKEN_EXPIRE_DAYS
                            \in pre.now .. now
                /\ \E t \in pre.now .. now : users[u].last_login_at = {t}
                /\ users = [pre.users EXCEPT
                              ![u].last_login_at = users[u].last_login_at]

\* C15 witness: a second login of an account has been answered while the
\* session of its first login is still redeemable.
C15_Witness ==
    \E r \in Slots :
        /\ LoginAnswered(r) /\ req[r].status = 200
        /\ \E rt \in pre.refresh_tokens :
              /\ rt.user_id = req[r].user
              /\ rt \in refresh_tokens
              /\ ~rt.revoked /\ rt.expires_at > now


(* ========================== token storage claims ======================== *)
\* Every session record holds the digest of a value that was drawn, and
\* nothing else made of the value.
OnlyDigestsStored ==
    \A rt \in refresh_tokens :
        /\ rt.token_hash \in { hash_token(v) : v \in 1 .. uuid_counter }
        /\ rt.id \in { RowId(v) : v \in 1 .. uuid_counter }

\* A step that puts a refresh value into the answer of request r is the
\* step of a login or a refresh that creates the record of that value, and
\* the value was never drawn before.
HandedByCreator ==
    \A r \in Slots :
        (req'[r].refresh # req[r].refresh /\ req'[r].refresh # 0) =>
            /\ req[r].op \in {"login", "refresh"}
            /\ req'[r].refresh > uuid_counter
            /\ refresh_tokens' \ refresh_tokens
                  = { rt \in refresh_tokens' :
                        rt.token_hash = hash_token(req'[r].refresh) }
            /\ Cardinality(refresh_tokens' \ refresh_tokens) = 1
            /\ \A q \in Slots \ {r} : req'[q].refresh = req[q].refresh

MeAnswered(r) == req[r].op = "me" /\ req[r].pc = "done"

\* The exp claim of a token had passed at instant t (in days).
Expired(token, t) == token.exp < t * MinutesPerDay

C18_AccessTokenOutlivesSessions ==
    \A r \in Slots :
        (MeAnswered(r) /\ req[r].bearer \in held) =>
            /\ (/\ ~Expired(req[r].bearer, now)
                /\ req[r].bearer.sub \in DOMAIN pre.users
                /\ pre.users[req[r].bearer.sub].is_active)
               => req[r].status = 200
            /\ Expired(req[r].bearer, pre.now) => req[r].status = 401

\* C18 witness: after a logout revoked every session of the account, a
\* request with the access token of the login is answered 200.
C18_Witness ==
    \E r \in Slots :
        /\ MeAnswered(r) /\ req[r].status = 200
        /\ req[r].bearer \in held
        /\ SessionsOf(refresh_tokens, req[r].user) # {}
        /\ \A rt \in SessionsOf(refresh_tokens, req[r].user) : rt.revoked


(* ========================== encryption claims =========================== *)
\* C19 as the specification states it: an ENCRYPTION_KEY that does not
\* decode to exactly 32 bytes is fatal at startup, so no process serves
\* requests with such a key.  The code reads the key in get_fernet, on the
\* first call that encrypts or decrypts.
C19_BadKeyFatalAtStartup ==
    enc.phase = "serving" => KeyValid(enc.key)

\* The last call undid the call before it.
Undoes(undo, do) ==
    /\ enc.last.call = undo
    /\ enc.prev.call = do
    /\ enc.prev.raised = ""
    /\ enc.last.arg = enc.prev.result

\* C20: with a valid key, decrypt(encrypt(x)) = x for every string x and
\* decrypt_bytes(encrypt_bytes(b)) = b for every byte string b, the empty
\* ones included; encrypt and decrypt return None for None and "" for "",
\* without building a Fernet and without raising, whatever the key.
C20_EncryptDecryptRoundTrip ==
    /\ (KeyValid(enc.key) /\ Undoes("decrypt", "encrypt"))
          => enc.last.raised = "" /\ enc.last.result = enc.prev.arg
    /\ (KeyValid(enc.key) /\ Undoes("decrypt_bytes", "encrypt_bytes"))
          => enc.last.raised = "" /\ enc.last.result = enc.prev.arg
    /\ (enc.last.call \in {"encrypt", "decrypt"} /\ Falsy(enc.last.arg))
          => /\ enc.last.raised = ""
             /\ enc.last.result = enc.last.arg
             /\ enc.prev.call = "none" => ~enc.fernet

\* C20 witness: a text was encrypted to a token and the token decrypted
\* back.
C20_Witness ==
    /\ Undoes("decrypt", "encrypt")
    /\ enc.prev.arg = Plain("text")
    /\ enc.prev.result.token
    /\ enc.last.result = Plain("text")


\* A stored text no token of this key: damaged, made under another key, or
\* plaintext written before encryption was introduced.
Tampered(value) == value.token /\ value.key = EncryptionKey /\ ~value.intact
Foreign(value) == value.token /\ value.key # EncryptionKey
Legacy(value) == ~value.token /\ ~Falsy(value)
Unreadable(value) == Tampered(value) \/ Foreign(value) \/ Legacy(value)

\* C21: with a loadable key, decrypt of a tampered, foreign-key or legacy
\* plaintext text returns "[decryption failed]" and does not raise, so the
\* read of a patient whose columns hold such values returns, with the
\* sentinel in their place; decrypt_bytes of a tampered binary value raises
\* InvalidToken, also out of the photo read.
C21_UnreadableTextGivesSentinel ==
    KeyValid(enc.key) =>
       /\ (enc.last.call = "decrypt" /\ Unreadable(enc.last.arg))
             => enc.last.raised = "" /\ enc.last.result = DecryptionFailed
       /\ enc.last.call = "get_patient"
             => /\ enc.last.raised = ""
                /\ \A i \in 1 .. 2 :
                      Unreadable(enc.last.arg.data[i])
                         => enc.last.result.data[i] = DecryptionFailed
       /\ (enc.last.call \in {"decrypt_bytes", "get_photo"}
              /\ Tampered(enc.last.arg))
             => enc.last.raised = "InvalidToken"

\* C21 witness: a patient with a tampered phone and a foreign-key notes
\* column was read and answered with two sentinels.
C21_Witness ==
    /\ enc.last.call = "get_patient"
    /\ Tampered(enc.last.arg.data[1])
    /\ Foreign(enc.last.arg.data[2])
    /\ enc.last.raised = ""
    /\ enc.last.result = Plain(<<DecryptionFailed, DecryptionFailed>>)


(* =========================== migration claims =========================== *)
\* A token whose payload is itself a token: a value encrypted twice.
EncryptedTwice(value) == value.token /\ value.data.token

\* C22: a column the script recognises as ciphertext by the prefix, or that
\* is None or empty, is left as it is by a run; a run that starts after a
\* completed migration changes no column and no photo; no column ever holds
\* a token of a token.
C22_MigrateIdempotent ==
    /\ \A column \in DOMAIN mig.store :
          is_already_encrypted(mig.start[column])
             => mig.store[column] = mig.start[column]
    /\ mig.settled => mig.store = mig.start
    /\ \A column \in DOMAIN mig.store : ~EncryptedTwice(mig.store[column])

\* C22 witness: plaintext phone and photo were encrypted by a migration and
\* a later run over the migrated store has finished.
C22_Witness ==
    /\ mig.settled /\ ~mig.dry_run /\ mig.pc = "done"
    /\ mig.initial.phone = Plain("text")
    /\ mig.store.phone = FernetEncrypt(EncryptionKey, Plain("text"))
    /\ mig.initial.photo = Plain("jpeg")
    /\ mig.store.photo = FernetEncrypt(EncryptionKey, Plain("jpeg"))


(* ============================= export claims ============================ *)
\* The document inside the artifact of the export.
ExportedDocument == decrypt_bytes(bk.artifact).data

\* The patient objects of the exported document.
ExportedPatients ==
    { ExportedDocument.patients_list[i].entry :
        i \in 1 .. Len(ExportedDocument.patients_list) }

\* The step is the export.
Exporting == bk.stage = "source" /\ bk'.stage = "exported"

\* C23: the document of an export holds, for every patient row, an object
\* with the row's id and the phone column exactly as the row stores it
\* (ciphertext stays the same ciphertext, nothing is decrypted or encrypted
\* again); the export changes no patient, assessment, selection, account or
\* session row, and appends exactly one audit record: action backup, the
\* exporter's id, the number of patients exported.
C23_ExportVerbatim ==
    /\ [] (bk.stage = "exported" =>
             /\ \A row \in bk.source.patients :
                   \E e \in ExportedPatients :
                       e.id = Str(row.id) /\ e.phone = row.phone
             /\ Cardinality(ExportedPatients)
                   = Cardinality(bk.source.patients))
    /\ [][Exporting =>
            /\ patients' = patients
            /\ assessments' = assessments
            /\ selections' = selections
            /\ users' = users
            /\ refresh_tokens' = refresh_tokens
            /\ audit_logs' = Append(audit_logs,
                  AuditEntry(bk'.operator, "backup", "system",
                             <<"patient_count", Cardinality(patients)>>))
            /\ users[bk'.operator].role = "admin"]_vars

\* C23 witness: an export of a store with two patients whose phone column
\* holds ciphertext has been made.
C23_Witness ==
    /\ bk.stage = "exported"
    /\ Cardinality(bk.source.patients) = 2
    /\ \A row \in bk.source.patients : row.phone = StoredPhone
    /\ Len(audit_logs) = 1


(* =========================== privilege claims =========================== *)
\* The answer a caller who is no active admin gets: 403 when an active
\* account of another role holds the token, 401 otherwise.
TurnedAway(caller, status) ==
    IF caller \in DOMAIN users /\ users[caller].is_active
    THEN users[caller].role # "admin" /\ status = 403
    ELSE status = 401

C25_NoSelfDeletion ==
    \A r \in Slots :
        (/\ req[r].op = "delete_user" /\ req[r].pc = "done"
         /\ req[r].target = req[r].user
         /\ req[r].user \in DOMAIN pre.users
         /\ pre.users[req[r].user].role = "admin")
        => /\ req[r].status # 200
           /\ users = pre.users
           /\ refresh_tokens = pre.refresh_tokens


(* ========================= session record claims ======================== *)
\* The row is still in the table after the step, with the same owner, hash
\* and expiry, and still revoked if it was.
SessionKept(rt) ==
    \E kept \in refresh_tokens' :
        /\ kept.id = rt.id
        /\ kept.user_id = rt.user_id
        /\ kept.token_hash = rt.token_hash
        /\ kept.expires_at = rt.expires_at
        /\ rt.revoked => kept.revoked

ReusedRevoked(r) ==
    /\ req[r].op = "refresh" /\ req[r].pc = "done"
    /\ \E rt \in pre.refresh_tokens :
          rt.token_hash = hash_token(req[r].token) /\ rt.revoked

\* C27: a refresh that presents the value of an already revoked row is
\* answered 401 and that is all: every session row is as it was, so a row
\* of the account that was live, such as the one the earlier rotation
\* created, is still live.
C27_ReuseRevokesNothing ==
    \A r \in Slots :
        ReusedRevoked(r)
        => /\ req[r].status = 401
           /\ refresh_tokens = pre.refresh_tokens
           /\ \A rt \in pre.refresh_tokens :
                 ~rt.revoked => rt \in refresh_tokens

\* C27 witness: a value was redeemed, then presented again and refused,
\* while the row of the value that rotation issued is live.
C27_Witness ==
    \E r \in Slots :
        /\ ReusedRevoked(r)
        /\ \E old \in refresh_tokens, new \in refresh_tokens :
              /\ old.token_hash = hash_token(req[r].token)
              /\ new.user_id = old.user_id
              /\ new.id # old.id
              /\ Live(new, now)


(* ========================== key provider claims ========================= *)
\* The last two calls both needed the Fernet and the first of them found
\* none: two first uses, one right after the other.
FirstUses ==
    /\ enc.prev.call \in {"encrypt", "decrypt", "encrypt_bytes",
                          "decrypt_bytes"}
    /\ enc.last.call \in {"encrypt", "decrypt", "encrypt_bytes",
                          "decrypt_bytes"}
    /\ ~Falsy(enc.prev.arg) /\ ~Falsy(enc.last.arg)

\* C28: _fernet is assigned at most once in a process; once set it stays
\* set and holds the configured key, so every token any call makes is a
\* token of that key; with a key that cannot be loaded it stays None and
\* nothing of a key is kept.
C28_FernetInitializedOnce ==
    /\ [] /\ enc.inits <= 1
          /\ enc.fernet => /\ enc.inits = 1
                           /\ enc.fkey = enc.key
                           /\ KeyValid(enc.key)
          /\ ~KeyValid(enc.key) => /\ ~enc.fernet
                                   /\ enc.fkey = ""
                                   /\ enc.inits = 0
          /\ (enc.last.call \in {"encrypt", "encrypt_bytes"}
                 /\ enc.last.raised = "" /\ enc.last.result.token)
                => enc.last.result.key = enc.key
    /\ [][enc.fernet => enc'.fernet /\ enc'.fkey = enc.fkey]_vars

\* C28 witness: two uses that needed the Fernet followed a start without
\* one, and one Fernet was built.
C28_Witness ==
    /\ FirstUses
    /\ enc.prev.raised = "" /\ enc.last.raised = ""
    /\ enc.fernet /\ enc.inits = 1
    /\ enc.prev.call = "encrypt" /\ enc.last.call = "encrypt_bytes"


(* ======================= restore fallback claims ======================== *)
\* The created_by the specification promises for an entry: the backup's
\* value when it is a valid UUID, the operator's id otherwise.
PromisedCreatedBy(value) ==
    LET parsed == UUIDParse(IF value = Absent THEN "" ELSE value) IN
    IF parsed \in UUIDErrors THEN rq.operator ELSE parsed

\* The entry read last is the first entry of the upload, a patient the
\* store does not hold, with a valid id.
FirstPatientRead ==
    /\ rq.entry.level = "patient" /\ rq.n = 1
    /\ PatientWellFormed(rq.entry.e)
    /\ ValidateUUIDStatus(rq.entry.e.id) = 200
    /\ UUIDParse(rq.entry.e.id) \notin Ids(pre.patients)

\* C29 as the specification states it: whatever the created_by of a patient
\* entry, the patient is inserted, with the backup's created_by when that
\* is a valid UUID and with the operator's id otherwise: the row is pending
\* while the restore runs and stored when it has ended, which it does with
\* 200.  The code answers 500 and stores nothing for a created_by of JSON
\* null (TypeError is not caught) and for a valid UUID that names no
\* account (the foreign key refuses the row at the commit).
C29_CreatedByFallback ==
    FirstPatientRead =>
        LET id == UUIDParse(rq.entry.e.id)
            created_by == PromisedCreatedBy(rq.entry.e.created_by)
            inserted(rows) ==
                \E row \in rows : row.id = id /\ row.created_by = created_by
        IN  IF rq.pc \in {"log", "done"}
            THEN inserted(patients) /\ (rq.pc = "done" => rq.status = 200)
            ELSE inserted(rq.new_patients)

\* The selection entry read last was not skipped and its id is valid.
SelectionRead ==
    /\ rq.entry.level = "selection"
    /\ SelectionWellFormed(rq.entry.e)
    /\ ValidateUUIDStatus(rq.entry.e.id) = 200

\* C30 as the specification states it: a selection entry whose severity is
\* missing or is any value other than normal, mild, moderate, severe is
\* neither skipped nor an error: its row is added with severity normal, and
\* with the backup's severity when that is one of the four; the row is
\* stored when the restore ends with 200, and a restore that ends otherwise
\* right after the entry was refused by the database for a key, never for
\* the severity.  The code answers 500 for a severity that is a JSON array.
C30_SeverityFallback ==
    SelectionRead =>
        LET id == UUIDParse(rq.entry.e.id)
            given == rq.entry.e.severity
            severity == IF given \in {"normal", "mild", "moderate", "severe"}
                        THEN given ELSE "normal"
            inserted(rows) ==
                \E row \in rows : row.id = id /\ row.severity = severity
        IN  /\ rq.pc \notin {"log", "done"} => inserted(rq.new_selections)
            /\ rq.pc = "log" => inserted(selections)
            /\ (rq.pc = "done" /\ rq.status = 200) => inserted(selections)
            /\ (rq.pc = "done" /\ rq.status # 200) => rq.doomed

(* ===================== concurrent revocation claims ===================== *)
\* Slot r holds an answered refresh and slot q an answered logout or
\* change-password of the same account: both requests have finished, and
\* neither answer has left its slot, so no request came after them.
FinishedTogether(r, q) ==
    /\ req[r].op = "refresh" /\ req[r].pc = "done" /\ req[r].status = 200
    /\ req[q].op \in {"logout", "password"}
    /\ req[q].pc = "done" /\ req[q].status = 200
    /\ req[q].user = req[r].user

\* C31 as the specification states it: when a refresh of an account's token
\* and a logout or change-password of that account have both finished, the
\* account has no session row that is not revoked and the refresh value the
\* refresh answered with cannot be redeemed.  The code lets the refresh
\* insert its new row after the other request selected the rows to revoke.
C31_RevokeAllSurvivesRefresh ==
    \A r \in Slots, q \in Slots :
        FinishedTogether(r, q) =>
            /\ ActiveSessionsOf(req[r].user) = {}
            /\ ValidSessions(req[r].refresh) = {}

(* ====================== dormant account claims ========================== *)
\* The owner of the row a refresh selected is deactivated or deleted.
OwnerDormant(r) ==
    req[r].user \notin DOMAIN users \/ ~users[req[r].user].is_active

\* The refresh in slot r selected a row that was neither revoked nor
\* expired and was answered 401 all the same: its owner was dormant.
DormantRejected(r) ==
    /\ req[r].op = "refresh" /\ req[r].pc = "done"
    /\ req[r].rt # {} /\ req[r].status = 401

\* C32: a refresh that presents a row neither revoked nor expired whose
\* account is deactivated or deleted when the owner is fetched is answered
\* 401, adds no session row and hands out no access or refresh token; the
\* presented row is revoked where it still exists, and the value selects no
\* row afterwards, whatever happens to the account.
C32_DormantAccountRefresh ==
    /\ [](\A r \in Slots :
            DormantRejected(r) =>
                /\ req[r].refresh = 0 /\ req[r].access = NoBearer
                /\ ValidSessions(req[r].token) = {}
                /\ \A rt \in refresh_tokens :
                      rt.id \in req[r].rt => rt.revoked)
    /\ [][\A r \in Slots :
            (/\ req[r].op = "refresh" /\ req[r].pc = "fetch"
             /\ OwnerDormant(r)
             /\ req'[r] # req[r])
            => /\ DormantRejected(r)'
               /\ refresh_tokens' = refresh_tokens
               /\ uuid_counter' = uuid_counter]_vars

\* C32 witness: bob's refresh was answered 401 while bob was deactivated,
\* the admin has reactivated bob since, and the row is revoked.
C32_Witness ==
    /\ DormantRejected("r1")
    /\ req["r1"].user = "u2"
    /\ "u2" \in DOMAIN users /\ users["u2"].is_active
    /\ nreq = 3 /\ req["r2"].op = "idle"
    /\ \E rt \in refresh_tokens : rt.id \in req["r1"].rt /\ rt.revoked

\* C32 witness, deleted account: the account was deleted after the refresh
\* revoked the row and before it fetched the owner; the answer is 401.
C32_Witness_Deleted ==
    \E r \in Slots :
        /\ DormantRejected(r)
        /\ req[r].user \notin DOMAIN users

(* ======================== stored role claims ============================ *)
\* A request behind a role dependency was answered.
GuardedAnswered(r) == req[r].op = "guarded" /\ req[r].pc = "done"

\* C33: a request whose access token an answer carried is decided by the
\* row of the account as it is stored when the request arrives: 401 when
\* the account is deactivated or deleted, and otherwise, while the exp claim
\* has not passed, 200 or 403 as the stored role passes the endpoint's
\* dependency or not, whatever role the token was issued with.
C33_StoredStateDecides ==
    \A r \in Slots :
        (GuardedAnswered(r) /\ req[r].bearer \in held) =>
            LET u == req[r].bearer.sub IN
            IF u \notin DOMAIN pre.users \/ ~pre.users[u].is_active
            THEN req[r].status = 401
            ELSE ~Expired(req[r].bearer, now) =>
                    req[r].status =
                       IF RoleAllowed(pre.users[u].role, req[r].guard)
                       THEN 200 ELSE 403

\* C33 witness: a token issued to a doctor opens an admin endpoint after
\* the account was made an admin.
C33_Witness ==
    \E r \in Slots :
        /\ GuardedAnswered(r) /\ req[r].status = 200
        /\ req[r].bearer.role = "doctor"
        /\ req[r].guard.roles = {"admin"}

\* C33 witness, demotion: a token issued to an admin is answered 403 at an
\* admin endpoint after the account was made a nurse.
C33_Witness_Demoted ==
    \E r \in Slots :
        /\ GuardedAnswered(r) /\ req[r].status = 403
        /\ req[r].bearer.role = "admin"

\* C33 witness, deactivation and deletion: an unexpired token of an account
\* that was deactivated, and one of an account that was deleted, are
\* answered 401.
C33_Witness_Gone ==
    \E r \in Slots :
        /\ GuardedAnswered(r) /\ req[r].status = 401
        /\ ~Expired(req[r].bearer, now)
        /\ req[r].bearer.sub \notin DOMAIN users

(* ======================= malformed entry claims ========================= *)
\* The entry is one the specification calls malformed: a patient that is no
\* mapping or lacks id or name, an assessment that lacks id, a selection
\* that lacks id or mesh_id.
MalformedEntry(entry) ==
    /\ entry.level # "none"
    /\ \/ ~entry.e.dict
       \/ entry.e.id = Absent
       \/ entry.level = "patient" /\ entry.e.name = Absent
       \/ entry.level = "selection" /\ entry.e.mesh_id = Absent

\* C34: the step that reads a malformed entry adds no row, counts no patient
\* as restored, ends nothing and stays in the loop it is in: what the
\* entries before it added is kept and the entries after it are read as
\* they would be without it.  A restore that has read a malformed entry and
\* is answered 200 has committed the rows of its well-formed entries.
C34_MalformedEntrySkipped ==
    /\ [][(rq'.n = rq.n + 1 /\ MalformedEntry(rq'.entry)) =>
            /\ rq'.pc = rq.pc
            /\ rq'.new_patients = rq.new_patients
            /\ rq'.new_assessments = rq.new_assessments
            /\ rq'.new_selections = rq.new_selections
            /\ rq'.restored_count = rq.restored_count
            /\ rq'.doomed = rq.doomed
            /\ <<patients', assessments', selections'>> =
                  <<patients, assessments, selections>>]_vars
    /\ []((MalformedEntry(rq.entry) /\ rq.pc = "done") =>
             (rq.status = 200 \/ rq.doomed))

\* C34 witness: a restore that read a malformed patient entry, and a
\* malformed entry last, was answered 200 and stored a patient.
C34_Witness ==
    /\ rq.pc = "done" /\ rq.status = 200
    /\ rq.malformed > 0
    /\ MalformedEntry(rq.entry)
    /\ rq.restored_patients > 0
    /\ patients # pre.patients

(* ====================== migration completion claims ===================== *)
\* A real run has run to completion.
MigrationComplete == mig.pc = "done" /\ ~mig.dry_run

\* C35 as the specification states it: when a real run has completed,
\* whatever the columns held before the first run and whatever runs, dry
\* runs and interrupted runs came before, every column that held a
\* non-empty value holds ciphertext: the value it held if that was
\* ciphertext already, and otherwise that value encrypted once.  The code
\* leaves a plaintext that begins with gAAAAA as it is.
C35_MixedStoreFullyEncrypted ==
    MigrationComplete =>
        \A column \in DOMAIN mig.store :
            LET legacy == mig.initial[column] IN
            ~(~legacy.token /\ legacy.data \in {"#None", ""}) =>
                /\ mig.store[column].token
                /\ mig.store[column] =
                      IF legacy.token THEN legacy
                      ELSE FernetEncrypt(EncryptionKey, legacy)

\* The columns of the store a run finds that a real run encrypts: the ones
\* that hold a value, not empty, that does not begin with the prefix.
ToEncrypt(columns) ==
    { column \in DOMAIN columns :
        /\ ~(~columns[column].token /\ columns[column].data \in {"#None", ""})
        /\ ~columns[column].token
        /\ columns[column].data # MarkedText }

\* C36: a dry run executes no ALTER TABLE, changes no column value and
\* commits nothing; the columns it has reported when it ends are the ones a
\* real run over the same store changes.
C36_DryRunChangesNothing ==
    /\ (mig.dry_run /\ mig.pc # "idle") =>
          /\ mig.store = mig.start
          /\ ~mig.ddl /\ ~mig.committed
          /\ mig.pc = "done" => mig.reported = ToEncrypt(mig.start)
    /\ MigrationComplete =>
          { column \in DOMAIN mig.store :
              mig.store[column] # mig.start[column] } = ToEncrypt(mig.start)

\* C36 witness: a dry run over a store with a plaintext phone and a
\* plaintext photo has ended, having reported both.
C36_Witness ==
    /\ mig.dry_run /\ mig.pc = "done"
    /\ mig.start.phone = Plain("text") /\ mig.start.photo = Plain("jpeg")
    /\ {"phone", "photo"} \subseteq mig.reported
    /\ mig.store = mig.initial

(* ============================ invite claims ============================= *)
\* C37 as the specification states it: no invite code has more than one
\* registration answered 200, no patient has more than one linked account,
\* and a validate-code or a registration that arrives after its code was
\* consumed fails.  Two registrations with the same code, or with two codes
\* of the same patient, that run at the same time with different usernames
\* both pass the three SELECTs before either commits, and both commit.
C37_InviteConsumedOnce ==
    /\ \A code \in InviteCodes :
          Cardinality({ x \in portal.registered : x.code = code }) <= 1
    /\ \A patient \in patients :
          Cardinality({ link \in portal.links :
                          link.patient_id = patient.id }) <= 1
    /\ \A r \in Slots :
          (portal.pr[r].pc = "done" /\ portal.pr[r].late) =>
              /\ portal.pr[r].op = "validate" => ~portal.pr[r].valid
              /\ portal.pr[r].op = "register" => portal.pr[r].status # 200

====
